---------------------------- MODULE Spec2Model ----------------------------
(***************************************************************************)
(* A model of the arkouda client core: the registry service               *)
(* (register / attach / unregister, arkouda/numpy/util.py), the creation  *)
(* service (arkouda/pdarraycreation.py) with its transfer guard, and the  *)
(* metadata algorithms invert_permutation and broadcast_dims.             *)
(*                                                                         *)
(* The compute server, the transport (generic_msg) and the handle classes *)
(* are not part of the two source files; they are modelled from the       *)
(* specification's description of them.                                   *)
(***************************************************************************)
EXTENDS Integers, Sequences, FiniteSets, TLC

VARIABLES
    registry,   \* server registry: name -> registered server object or NoEntry
    last,       \* the registry call that returned last
    prev,       \* the registry call that returned before it
    maxTransferBytes,    \* pdarraycreation's module global (bound by the import)
    ak_maxTransferBytes, \* the package attribute ak.maxTransferBytes
    pc,         \* position of the creation call in flight
    call,       \* the creation call in flight: its operation, input and locals
    sent,       \* requests the creation call in flight has sent, in order
    result,     \* outcome of the creation call
    perm,       \* invert_permutation: the input array
    inv,        \* invert_permutation: its outcome
    sa,         \* broadcast_dims: first shape
    sb,         \* broadcast_dims: second shape
    bc,         \* broadcast_dims: its outcome
    ut          \* the call of map, sparse_sum_help or convert_bytes and its outcome

regVars == <<registry, last, prev>>
crVars == <<maxTransferBytes, ak_maxTransferBytes, pc, call, sent, result>>
pmVars == <<perm, inv>>
bcVars == <<sa, sb, bc>>
utVars == <<ut>>
vars == <<registry, last, prev, maxTransferBytes, ak_maxTransferBytes, pc, call,
          sent, result, perm, inv, sa, sb, bc, ut>>

(***************************************************************************)
(* Python values                                                           *)
(***************************************************************************)
\* Python's None
NoneVal == [kind |-> "NoneType"]

\* str.lower() on one character
LowerChar(c) ==
    CASE c = "A" -> "a" [] c = "B" -> "b" [] c = "C" -> "c" [] c = "D" -> "d"
      [] c = "E" -> "e" [] c = "F" -> "f" [] c = "G" -> "g" [] c = "H" -> "h"
      [] c = "I" -> "i" [] c = "J" -> "j" [] c = "K" -> "k" [] c = "L" -> "l"
      [] c = "M" -> "m" [] c = "N" -> "n" [] c = "O" -> "o" [] c = "P" -> "p"
      [] c = "Q" -> "q" [] c = "R" -> "r" [] c = "S" -> "s" [] c = "T" -> "t"
      [] c = "U" -> "u" [] c = "V" -> "v" [] c = "W" -> "w" [] c = "X" -> "x"
      [] c = "Y" -> "y" [] c = "Z" -> "z" [] OTHER -> c

\* str.upper() on one character
UpperChar(c) ==
    CASE c = "a" -> "A" [] c = "b" -> "B" [] c = "c" -> "C" [] c = "d" -> "D"
      [] c = "e" -> "E" [] c = "f" -> "F" [] c = "g" -> "G" [] c = "h" -> "H"
      [] c = "i" -> "I" [] c = "j" -> "J" [] c = "k" -> "K" [] c = "l" -> "L"
      [] c = "m" -> "M" [] c = "n" -> "N" [] c = "o" -> "O" [] c = "p" -> "P"
      [] c = "q" -> "Q" [] c = "r" -> "R" [] c = "s" -> "S" [] c = "t" -> "T"
      [] c = "u" -> "U" [] c = "v" -> "V" [] c = "w" -> "W" [] c = "x" -> "X"
      [] c = "y" -> "Y" [] c = "z" -> "Z" [] OTHER -> c

\* str.lower(): a string is a sequence of characters
lower(s) == [i \in DOMAIN s |-> LowerChar(s[i])]

\* str.upper()
upper(s) == [i \in DOMAIN s |-> UpperChar(s[i])]

(***************************************************************************)
(* Handle kinds and their declared object-type tags                        *)
(***************************************************************************)
KnownKinds == {"pdarray", "Strings", "Datetime", "Timedelta", "IPv4", "SegArray",
               "DataFrame", "GroupBy", "Categorical", "Index", "MultiIndex",
               "Series", "BitVector"}

\* kinds a server may hold that this client declares no handle for
ForeignKinds == {"Matrix", "pdarrays"}

\* <Class>.objType / <Class>.special_objType, as a character sequence
objType(kind) ==
    CASE kind = "pdarray" -> <<"p","d","a","r","r","a","y">>
      [] kind = "Strings" -> <<"S","t","r","i","n","g","s">>
      [] kind = "Datetime" -> <<"D","a","t","e","t","i","m","e">>
      [] kind = "Timedelta" -> <<"T","i","m","e","d","e","l","t","a">>
      [] kind = "IPv4" -> <<"I","P","v","4">>
      [] kind = "SegArray" -> <<"S","e","g","A","r","r","a","y">>
      [] kind = "DataFrame" -> <<"D","a","t","a","F","r","a","m","e">>
      [] kind = "GroupBy" -> <<"G","r","o","u","p","B","y">>
      [] kind = "Categorical" -> <<"C","a","t","e","g","o","r","i","c","a","l">>
      [] kind = "Index" -> <<"I","n","d","e","x">>
      [] kind = "MultiIndex" -> <<"M","u","l","t","i","I","n","d","e","x">>
      [] kind = "Series" -> <<"S","e","r","i","e","s">>
      [] kind = "BitVector" -> <<"B","i","t","V","e","c","t","o","r">>
      [] kind = "Matrix" -> <<"M","a","t","r","i","x">>
      [] kind = "pdarrays" -> <<"p","d","a","r","r","a","y","s">>


(***************************************************************************)
(* The server and the transport (not in the source files)                 *)
(***************************************************************************)
Names == {"a", "b"}

\* "no registration under this name"
NoEntry == [kind |-> "NoEntry"]

\* handle attribute registered_name before any registration
Unset == "<unset>"

\* one server-resident object of each kind
ServerObject(kind) ==
    [kind |-> kind,
     name |-> "id_" \o kind,
     dtype |-> IF kind \in {"Strings", "Categorical"} THEN "str" ELSE "int64",
     size |-> Len(objType(kind)),
     levels |-> IF kind = "MultiIndex" THEN 2 ELSE 1]

\* the spellings a server may give an object's type tag in a reply
ServerSpellings(obj) ==
    IF obj = NoEntry THEN {<< >>}
    ELSE {objType(obj.kind), upper(objType(obj.kind)), lower(objType(obj.kind))}

\* the descriptor text a reply carries for an object: "created <name> <dtype> <size> ..."
Descriptor(obj) == <<"created", obj.name, obj.dtype, obj.size, obj.levels>>

\* server handler of "register": a name held by an object of another type is refused
RegisterMsg(reg, name, obj) ==
    IF reg[name] # NoEntry /\ reg[name].kind # obj.kind
    THEN [ok |-> FALSE, reply |-> << >>, registry |-> reg]
    ELSE [ok |-> TRUE, reply |-> << >>, registry |-> [reg EXCEPT ![name] = obj]]

\* server handler of "attach": the tagged reply; a name that is not registered
\* is answered with no object type
AttachMsg(reg, name, tag) ==
    IF reg[name] = NoEntry
    THEN [ok |-> TRUE, reply |-> [objType |-> << >>, create |-> << >>], registry |-> reg]
    ELSE [ok |-> TRUE,
          reply |-> [objType |-> tag, create |-> Descriptor(reg[name])],
          registry |-> reg]

\* server handler of "unregister": an unknown name is an error
UnregisterMsg(reg, name) ==
    IF reg[name] = NoEntry
    THEN [ok |-> FALSE, reply |-> << >>, registry |-> reg]
    ELSE [ok |-> TRUE,
          reply |-> <<"Unregistered", upper(objType(reg[name].kind)), name>>,
          registry |-> [reg EXCEPT ![name] = NoEntry]]

(***************************************************************************)
(* Handle constructors (not in the source files)                          *)
(***************************************************************************)
\* create_pdarray: parse a descriptor into a pdarray handle
create_pdarray(d) ==
    [kind |-> "pdarray", name |-> d[2], dtype |-> d[3], size |-> d[4],
     registered_name |-> Unset]

\* <Class>.from_return_msg for the composite handle classes
from_return_msg(kind, d) ==
    [kind |-> kind, name |-> d[2], dtype |-> d[3], size |-> d[4],
     registered_name |-> Unset]

\* Datetime(pda), Timedelta(pda), IPv4(pda): a typed wrapper of a pdarray
Wrap(kind, pda) == [pda EXCEPT !.kind = kind]

\* Index.from_return_msg: an Index, or a MultiIndex for several levels
Index_from_return_msg(d) ==
    from_return_msg(IF d[5] > 1 THEN "MultiIndex" ELSE "Index", d)

\* the handle a client holds for a server object
HandleOf(obj) ==
    [kind |-> obj.kind, name |-> obj.name, dtype |-> obj.dtype, size |-> obj.size,
     registered_name |-> Unset]

\* the handles this session holds
ClientHandles == {HandleOf(ServerObject(k)) : k \in KnownKinds}

\* the server object a handle names
ObjectOf(h) == ServerObject(h.kind)

\* a handle's metadata: object type, server name, dtype, size
Metadata(h) == <<h.kind, h.name, h.dtype, h.size>>

(***************************************************************************)
(* Registry service (arkouda/numpy/util.py)                               *)
(***************************************************************************)
NoReply == [objType |-> << >>, create |-> << >>]

NoCall == [op |-> "none", name |-> "", outcome |-> "ok", value |-> NoneVal,
           reply |-> NoReply]

\* what is kept of the call before the last one
Summary(c) == [op |-> c.op, name |-> c.name, outcome |-> c.outcome, value |-> c.value]

\* register(obj, name): obj.register(name)
register(obj, name) ==
    LET rep == RegisterMsg(registry, name, ObjectOf(obj))
    IN  /\ registry' = rep.registry
        /\ prev' = Summary(last)
        /\ last' = [op |-> "register", name |-> name,
                    outcome |-> IF rep.ok THEN "ok" ELSE "RuntimeError",
                    value |-> IF rep.ok THEN [obj EXCEPT !.registered_name = name]
                              ELSE NoneVal,
                    reply |-> NoReply]
        /\ UNCHANGED <<crVars, pmVars, bcVars, utVars>>

\* variant of the dispatch that compares the tags as spelled
AttachDispatchCaseSensitive(rep_msg) ==
    LET t == rep_msg.objType
        c == rep_msg.create
    IN  IF t = objType("pdarray") THEN create_pdarray(c)
        ELSE IF t = objType("Strings") THEN from_return_msg("Strings", c)
        ELSE IF t = objType("Datetime") THEN Wrap("Datetime", create_pdarray(c))
        ELSE IF t = objType("Timedelta") THEN Wrap("Timedelta", create_pdarray(c))
        ELSE IF t = objType("IPv4") THEN Wrap("IPv4", create_pdarray(c))
        ELSE IF t = objType("SegArray") THEN from_return_msg("SegArray", c)
        ELSE IF t = objType("DataFrame") THEN from_return_msg("DataFrame", c)
        ELSE IF t = objType("GroupBy") THEN from_return_msg("GroupBy", c)
        ELSE IF t = objType("Categorical") THEN from_return_msg("Categorical", c)
        ELSE IF t = objType("Index") \/ t = objType("MultiIndex")
             THEN Index_from_return_msg(c)
        ELSE IF t = objType("Series") THEN from_return_msg("Series", c)
        ELSE IF t = objType("BitVector") THEN from_return_msg("BitVector", c)
        ELSE NoneVal

\* attach: the if/elif chain over rep_msg["objType"].lower()
AttachDispatch(rep_msg) ==
    LET t == lower(rep_msg.objType)
        c == rep_msg.create
    IN  IF t = lower(objType("pdarray")) THEN create_pdarray(c)
        ELSE IF t = lower(objType("Strings")) THEN from_return_msg("Strings", c)
        ELSE IF t = lower(objType("Datetime")) THEN Wrap("Datetime", create_pdarray(c))
        ELSE IF t = lower(objType("Timedelta")) THEN Wrap("Timedelta", create_pdarray(c))
        ELSE IF t = lower(objType("IPv4")) THEN Wrap("IPv4", create_pdarray(c))
        ELSE IF t = lower(objType("SegArray")) THEN from_return_msg("SegArray", c)
        ELSE IF t = lower(objType("DataFrame")) THEN from_return_msg("DataFrame", c)
        ELSE IF t = lower(objType("GroupBy")) THEN from_return_msg("GroupBy", c)
        ELSE IF t = lower(objType("Categorical")) THEN from_return_msg("Categorical", c)
        ELSE IF t = lower(objType("Index")) \/ t = lower(objType("MultiIndex"))
             THEN Index_from_return_msg(c)
        ELSE IF t = lower(objType("Series")) THEN from_return_msg("Series", c)
        ELSE IF t = lower(objType("BitVector")) THEN from_return_msg("BitVector", c)
        ELSE NoneVal

\* variant of attach's return that leaves the handle's registered_name unset
AttachReturnUnnamed(rep_msg, name) == AttachDispatch(rep_msg)

\* the value attach returns for a reply: the handle, named, or None
AttachReturn(rep_msg, name) ==
    LET rtn_obj == AttachDispatch(rep_msg)
    IN  IF rtn_obj # NoneVal THEN [rtn_obj EXCEPT !.registered_name = name]
        ELSE rtn_obj

\* variant of attach that raises when no known type matches the reply
attach_raises(name) ==
    \E tag \in ServerSpellings(registry[name]) :
        LET rep == AttachMsg(registry, name, tag)
            rtn == AttachReturn(rep.reply, name)
        IN  /\ registry' = rep.registry
            /\ prev' = Summary(last)
            /\ last' = [op |-> "attach", name |-> name,
                        outcome |-> IF rtn = NoneVal THEN "ValueError" ELSE "ok",
                        value |-> rtn,
                        reply |-> rep.reply]
            /\ UNCHANGED <<crVars, pmVars, bcVars, utVars>>

\* attach(name)
attach(name) ==
    \E tag \in ServerSpellings(registry[name]) :
        LET rep == AttachMsg(registry, name, tag)
        IN  /\ registry' = rep.registry
            /\ prev' = Summary(last)
            /\ last' = [op |-> "attach", name |-> name,
                        outcome |-> IF rep.ok THEN "ok" ELSE "RuntimeError",
                        value |-> IF rep.ok THEN AttachReturn(rep.reply, name)
                                  ELSE NoneVal,
                        reply |-> IF rep.ok THEN rep.reply ELSE NoReply]
            /\ UNCHANGED <<crVars, pmVars, bcVars, utVars>>

\* variant of unregister that swallows the server's error and leaves the entry
unregister_quiet(name) ==
    LET rep == UnregisterMsg(registry, name)
    IN  /\ registry' = registry
        /\ prev' = Summary(last)
        /\ last' = [op |-> "unregister", name |-> name, outcome |-> "ok",
                    value |-> [kind |-> "str", text |-> rep.reply],
                    reply |-> NoReply]
        /\ UNCHANGED <<crVars, pmVars, bcVars, utVars>>

\* unregister(name): the reply text, or the transport's RuntimeError
unregister(name) ==
    LET rep == UnregisterMsg(registry, name)
    IN  /\ registry' = rep.registry
        /\ prev' = Summary(last)
        /\ last' = [op |-> "unregister", name |-> name,
                    outcome |-> IF rep.ok THEN "ok" ELSE "RuntimeError",
                    value |-> IF rep.ok THEN [kind |-> "str", text |-> rep.reply]
                              ELSE NoneVal,
                    reply |-> NoReply]
        /\ UNCHANGED <<crVars, pmVars, bcVars, utVars>>

(***************************************************************************)
(* The registry session                                                    *)
(***************************************************************************)
\* the state of the registry part while another part is exercised
RegIdle ==
    /\ registry = [n \in Names |-> NoEntry]
    /\ last = NoCall
    /\ prev = Summary(NoCall)

\* the registry outlives sessions: names may be held by objects other
\* sessions registered, of kinds this client does not know
RegInit ==
    /\ registry \in [Names -> {NoEntry} \cup {ServerObject(k) : k \in ForeignKinds}]
    /\ last = NoCall
    /\ prev = Summary(NoCall)

RegNext ==
    \/ \E h \in ClientHandles, n \in Names : register(h, n)
    \/ \E n \in Names : attach(n)
    \/ \E n \in Names : unregister(n)

(***************************************************************************)
(* Batch registration (arkouda/numpy/util.py)                             *)
(***************************************************************************)
\* the handles given to register_all
BatchHandles == {HandleOf(ServerObject(k)) : k \in {"pdarray", "Strings"}}

\* the dicts given to register_all: distinct names, in insertion order
BatchData ==
    {d \in UNION {[1..n -> [name : Names, obj : BatchHandles]] : n \in 0..Cardinality(Names)} :
        \A i, j \in DOMAIN d : i # j => d[i].name # d[j].name}

\* the lists given to unregister_all; a name may be listed twice
BatchNames == UNION {[1..n -> Names] : n \in 0..Cardinality(Names)}

\* the loop of register_all from item i on: the registry it leaves and the
\* item whose register raised (0 when none did)
RECURSIVE RegisterFrom(_, _, _)
RegisterFrom(reg, data, i) ==
    IF i > Len(data) THEN [registry |-> reg, failed |-> 0]
    ELSE LET rep == RegisterMsg(reg, data[i].name, ObjectOf(data[i].obj))
         IN  IF ~rep.ok THEN [registry |-> rep.registry, failed |-> i]
             ELSE RegisterFrom(rep.registry, data, i + 1)

\* the loop of unregister_all from item i on
RECURSIVE UnregisterFrom(_, _, _)
UnregisterFrom(reg, names, i) ==
    IF i > Len(names) THEN [registry |-> reg, failed |-> 0]
    ELSE LET rep == UnregisterMsg(reg, names[i])
         IN  IF ~rep.ok THEN [registry |-> rep.registry, failed |-> i]
             ELSE UnregisterFrom(rep.registry, names, i + 1)

\* variant of register_all that undoes the earlier items when one fails
register_all_undo(reg, data) ==
    LET r == RegisterFrom(reg, data, 1)
    IN  IF r.failed = 0 THEN r ELSE [registry |-> reg, failed |-> r.failed]

\* register_all(data), lines 394-395
register_all_result(reg, data) == RegisterFrom(reg, data, 1)

\* unregister_all(names), lines 424-425
unregister_all_result(reg, names) == UnregisterFrom(reg, names, 1)

\* a batch call: its items, the item that failed, and the error propagated
Batch(op, items, r) ==
    /\ registry' = r.registry
    /\ prev' = Summary(last)
    /\ last' = [op |-> op, name |-> "",
                outcome |-> IF r.failed = 0 THEN "ok" ELSE "RuntimeError",
                value |-> NoneVal, reply |-> NoReply,
                items |-> items, failed |-> r.failed]
    /\ UNCHANGED <<crVars, pmVars, bcVars, utVars>>

register_all(data) == Batch("register_all", data, register_all_result(registry, data))

unregister_all(names) ==
    Batch("unregister_all", names, unregister_all_result(registry, names))

BatchNext ==
    \/ \E data \in BatchData : register_all(data)
    \/ \E names \in BatchNames : unregister_all(names)

(***************************************************************************)
(* Creation service (arkouda/pdarraycreation.py): values and bounds       *)
(***************************************************************************)
\* longest numeric input array
MaxArrayLen == 2
\* most strings in a textual input array
MaxStrings == 2
\* most characters in one string
MaxStrLen == 2
\* the values the transfer limit takes are 2^1 .. 2^MaxLimitExp
MaxLimitExp == 4
\* largest magnitude of an integer scalar argument
MaxScalar == 2

\* sequences over S of length lo..hi
SeqsOf(S, lo, hi) == UNION {[1..n -> S] : n \in lo..hi}

\* the values a caller gives the transfer limit
LimitValues == {2^k : k \in 1..MaxLimitExp}

\* arkouda.client.maxTransferBytes as imported, scaled to the model's arrays
DefaultMaxTransferBytes == 2^MaxLimitExp

\* arkouda.dtypes.DTypes: the dtype names the server supports
DTypes == {"bool", "int64", "float64", "uint8", "uint64"}

\* numpy's dtype.itemsize
itemsize(dtype) ==
    CASE dtype \in {"int64", "float64", "uint64", "complex128"} -> 8
      [] dtype = "int32" -> 4
      [] OTHER -> 1

\* the characters of the model's strings: "a", and U+00E9 (e with acute accent)
Characters == {"a", "U+00E9"}

\* str.encode() on one character: "a" is one byte of UTF-8 and U+00E9 is two
Utf8(c) == IF c = "a" THEN <<97>> ELSE <<195, 169>>

\* str.encode(): the UTF-8 bytes of a string
RECURSIVE encode(_)
encode(s) == IF s = << >> THEN << >> ELSE Utf8(Head(s)) \o encode(Tail(s))

\* the pdarray handles the session already holds
ExistingArrays ==
    {[kind |-> "pdarray", name |-> "id_x", dtype |-> "int64", size |-> 2,
      registered_name |-> Unset],
     [kind |-> "pdarray", name |-> "id_y", dtype |-> "bool", size |-> 1,
      registered_name |-> Unset]}

\* numeric numpy arrays: rank 1 with their elements, and ranks 0 and 2
NumericArrays ==
    {[kind |-> "ndarray", dtype |-> d, ndim |-> 1, data |-> x] :
        d \in {"int64", "float64", "bool", "uint8", "int32"},
        x \in SeqsOf({0, 1}, 0, MaxArrayLen)}
    \cup {[kind |-> "ndarray", dtype |-> "int64", ndim |-> r, data |-> <<1>>] :
        r \in {0, 2}}

\* numpy arrays of strings (dtype kind 'U'), of rank 1
Strs == SeqsOf(Characters, 0, MaxStrLen)
TextArrays ==
    {[kind |-> "ndarray", dtype |-> "U", ndim |-> 1, data |-> x] :
        x \in SeqsOf(Strs, 0, MaxStrings)}

\* a numpy array of strings of rank 2
TextMatrices == {[kind |-> "ndarray", dtype |-> "U", ndim |-> 2, data |-> <<<<"a">>>>]}

\* Python lists, which np.array converts: elems is the type of the elements
IntLists ==
    {[kind |-> "list", elems |-> "int", data |-> x] : x \in SeqsOf({0, 1}, 1, MaxArrayLen)}
StrLists ==
    {[kind |-> "list", elems |-> "str", data |-> x] : x \in SeqsOf(Strs, 1, 1)}

\* np.array(a) on a list: the dtype numpy infers from the elements
np_array(a) ==
    [kind |-> "ndarray",
     dtype |-> IF a.elems = "str" THEN "U" ELSE "int64",
     ndim |-> 1,
     data |-> a.data]

(***************************************************************************)
(* The server's creation handlers and the transport                       *)
(***************************************************************************)
\* the descriptor the server replies with for its k-th object of a call
CreatedReply(k, dtype, size) == <<"created", "id_" \o ToString(k), dtype, size, 1>>

\* a request: command, textual arguments, binary payload
Msg(cmd, args, payload) == [cmd |-> cmd, args |-> args, payload |-> payload]

\* Strings(offsets, bytes): the composite of two array handles
Strings(offsets, bytes) == [kind |-> "Strings", offsets |-> offsets, bytes |-> bytes]

\* outcome of a call: what it raised or returned, and the requests it sent
Raise(exc, why, msgs) == [outcome |-> exc, why |-> why, value |-> NoneVal, msgs |-> msgs]
Return(value, msgs) == [outcome |-> "ok", why |-> "", value |-> value, msgs |-> msgs]

(***************************************************************************)
(* array()                                                                 *)
(***************************************************************************)
\* variant of the numeric guard that lets every size through
ArrayNumericUnguarded(a, limit, k) ==
    IF a.ndim # 1 THEN Raise("RuntimeError", "rank", << >>)
    ELSE IF a.dtype \notin DTypes THEN Raise("RuntimeError", "dtype", << >>)
    ELSE Return(create_pdarray(CreatedReply(k, a.dtype, Len(a.data))),
                <<Msg("array", <<a.dtype, Len(a.data)>>, a.data)>>)

\* array() on a numeric numpy array (lines 68-69, 88-100), reading the limit
\* `limit`; k numbers the server object it creates
ArrayNumeric(a, limit, k) ==
    IF a.ndim # 1 THEN Raise("RuntimeError", "rank", << >>)
    ELSE IF a.dtype \notin DTypes THEN Raise("RuntimeError", "dtype", << >>)
    ELSE IF Len(a.data) * itemsize(a.dtype) > limit
         THEN Raise("RuntimeError", "transfer", << >>)
    ELSE Return(create_pdarray(CreatedReply(k, a.dtype, Len(a.data))),
                <<Msg("array", <<a.dtype, Len(a.data)>>, a.data)>>)

\* lengths = np.array([len(elem) for elem in a]) + 1
Lengths(data) == [i \in DOMAIN data |-> Len(data[i]) + 1]

\* np.cumsum(lengths)
RECURSIVE cumsum(_)
cumsum(x) ==
    IF x = << >> THEN << >>
    ELSE LET front == cumsum(SubSeq(x, 1, Len(x) - 1))
         IN  Append(front, (IF front = << >> THEN 0 ELSE front[Len(front)]) + x[Len(x)])

\* offsets = np.cumsum(lengths) - lengths
Offsets(data) ==
    LET l == Lengths(data)
        c == cumsum(l)
    IN  [i \in DOMAIN data |-> c[i] - l[i]]

\* nbytes = offsets[-1] + lengths[-1], for a non-empty array
NBytes(data) == Offsets(data)[Len(data)] + Lengths(data)[Len(data)]

\* the fill loop: values[o+i] = b for the bytes of each string in turn; the
\* result is the buffer, or no buffer when an index falls outside it
RECURSIVE FillValues(_, _, _, _)
FillValues(values, data, offsets, k) ==
    IF k > Len(data) THEN [ok |-> TRUE, values |-> values]
    ELSE LET bs == encode(data[k])
             o == offsets[k]
         IN  IF o + Len(bs) > Len(values) THEN [ok |-> FALSE, values |-> << >>]
             ELSE FillValues([j \in DOMAIN values |->
                                 IF j > o /\ j <= o + Len(bs) THEN bs[j - o]
                                 ELSE values[j]],
                             data, offsets, k + 1)

\* values = np.zeros(nbytes, dtype=np.uint8), then the fill loop
PackValues(data) ==
    FillValues([j \in 1..NBytes(data) |-> 0], data, Offsets(data), 1)

\* the numpy array array() recurses on
NdArray(dtype, data) == [kind |-> "ndarray", dtype |-> dtype, ndim |-> 1, data |-> data]

\* a creation call: operation, input, and array()'s locals on textual input
\* (offsets, values, the handle of the uploaded offsets); limit is the transfer
\* limit the call's first guard read, steady tells that its later guards read
\* the same limit, and ak is the value ak.maxTransferBytes had when the call
\* began; parts is the number of descriptors in the composite reply the call
\* decodes (0 for the calls that decode none)
Call(op, a) ==
    [op |-> op, a |-> a, offsets |-> << >>, values |-> << >>, first |-> NoneVal,
     limit |-> maxTransferBytes, steady |-> TRUE, ak |-> ak_maxTransferBytes,
     parts |-> 0]

NoCreation == [op |-> "none", a |-> NoneVal, offsets |-> << >>, values |-> << >>,
               first |-> NoneVal, limit |-> 0, steady |-> TRUE, ak |-> 0, parts |-> 0]

NoResult == [outcome |-> "pending", why |-> "", value |-> NoneVal]

\* a call that runs to its end in one step, on a composite reply of n
\* descriptors
FinishOn(op, a, r, n) ==
    /\ pc' = "done"
    /\ call' = [Call(op, a) EXCEPT !.parts = n]
    /\ sent' = r.msgs
    /\ result' = [outcome |-> r.outcome, why |-> r.why, value |-> r.value]
    /\ UNCHANGED <<maxTransferBytes, ak_maxTransferBytes>>
    /\ UNCHANGED <<regVars, pmVars, bcVars, utVars>>

\* a call that runs to its end in one step
Finish(op, a, r) ==
    /\ pc' = "done"
    /\ call' = Call(op, a)
    /\ sent' = r.msgs
    /\ result' = [outcome |-> r.outcome, why |-> r.why, value |-> r.value]
    /\ UNCHANGED <<maxTransferBytes, ak_maxTransferBytes>>
    /\ UNCHANGED <<regVars, pmVars, bcVars, utVars>>

\* the numpy array array() works on (lines 61-66)
AsNdArray(a) == IF a.kind = "list" THEN np_array(a) ELSE a

\* is this input handled by the textual branch (after the rank check)?
IsText(a) == a.kind # "pdarray" /\ AsNdArray(a).dtype = "U" /\ AsNdArray(a).ndim = 1

\* variant of array() that uploads a copy of the handle's array
array_handle_copy(a, limit) ==
    IF a.size * itemsize(a.dtype) > limit THEN Raise("RuntimeError", "transfer", << >>)
    ELSE Return(create_pdarray(CreatedReply(1, a.dtype, a.size)),
                <<Msg("array", <<a.dtype, a.size>>, << >>)>>)

\* array(a) when a is a pdarray, lines 58-60, whatever the limit is
array_handle(a, limit) == Return(a, << >>)

\* array(a) when a is a handle, or is not textual: lines 58-69 and 88-100
array_direct(a) ==
    /\ pc = "idle"
    /\ ~IsText(a)
    /\ Finish("array", a,
              IF a.kind = "pdarray" THEN array_handle(a, maxTransferBytes)
              ELSE ArrayNumeric(AsNdArray(a), maxTransferBytes, 1))

\* array(r) where r is the pdarray the call before returned
array_of_result ==
    /\ pc = "done"
    /\ result.outcome = "ok"
    /\ result.value.kind = "pdarray"
    /\ Finish("array", result.value, array_handle(result.value, maxTransferBytes))

\* array(a) on textual input, lines 71-85: segment, guard, pack
array_text_pack(a) ==
    /\ pc = "idle"
    /\ IsText(a)
    /\ LET data == AsNdArray(a).data
       IN  IF data = << >>
           THEN Finish("array", a, Raise("IndexError", "offsets[-1]", << >>))
           ELSE IF NBytes(data) > maxTransferBytes
           THEN Finish("array", a, Raise("RuntimeError", "transfer", << >>))
           ELSE IF ~PackValues(data).ok
           THEN Finish("array", a, Raise("IndexError", "values[o+i]", << >>))
           ELSE /\ pc' = "offsets"
                /\ call' = [Call("array", a) EXCEPT !.offsets = Offsets(data),
                                                    !.values = PackValues(data).values]
                /\ sent' = << >>
                /\ result' = NoResult
                /\ UNCHANGED <<maxTransferBytes, ak_maxTransferBytes>>
                /\ UNCHANGED <<regVars, pmVars, bcVars, utVars>>

\* line 87, first argument: array(offsets)
array_text_offsets ==
    /\ pc = "offsets"
    /\ LET r == ArrayNumeric(NdArray("int64", call.offsets), maxTransferBytes, 1)
       IN  /\ sent' = sent \o r.msgs
           /\ IF r.outcome = "ok"
              THEN /\ pc' = "values"
                   /\ call' = [call EXCEPT !.first = r.value,
                                           !.steady = @ /\ maxTransferBytes = call.limit]
                   /\ result' = result
              ELSE /\ pc' = "done"
                   /\ call' = [call EXCEPT !.steady = @ /\ maxTransferBytes = call.limit]
                   /\ result' = [outcome |-> r.outcome, why |-> r.why, value |-> r.value]
    /\ UNCHANGED <<maxTransferBytes, ak_maxTransferBytes>>
    /\ UNCHANGED <<regVars, pmVars, bcVars, utVars>>

\* line 87, second argument and the constructor: Strings(.., array(values))
array_text_values ==
    /\ pc = "values"
    /\ LET r == ArrayNumeric(NdArray("uint8", call.values), maxTransferBytes, 2)
       IN  /\ sent' = sent \o r.msgs
           /\ pc' = "done"
           /\ call' = [call EXCEPT !.steady = @ /\ maxTransferBytes = call.limit]
           /\ result' = IF r.outcome = "ok"
                        THEN [outcome |-> "ok", why |-> "",
                              value |-> Strings(call.first, r.value)]
                        ELSE [outcome |-> r.outcome, why |-> r.why, value |-> r.value]
    /\ UNCHANGED <<maxTransferBytes, ak_maxTransferBytes>>
    /\ UNCHANGED <<regVars, pmVars, bcVars, utVars>>

\* the caller assigns ak.maxTransferBytes between two of its calls, as
\* array()'s Notes tell it to
set_ak_maxTransferBytes(v) ==
    /\ pc = "idle"
    /\ ak_maxTransferBytes' = v
    /\ ak_maxTransferBytes # v
    /\ UNCHANGED <<maxTransferBytes, pc, call, sent, result>>
    /\ UNCHANGED <<regVars, pmVars, bcVars, utVars>>

\* the name array() reads, arkouda.pdarraycreation.maxTransferBytes, is
\* assigned: between two calls, or by another thread while a call is running
set_module_maxTransferBytes(v) ==
    /\ pc # "done"
    /\ maxTransferBytes' = v
    /\ maxTransferBytes # v
    /\ UNCHANGED <<ak_maxTransferBytes, pc, call, sent, result>>
    /\ UNCHANGED <<regVars, pmVars, bcVars, utVars>>

\* the call has returned or raised; the caller goes on to its next call
next_call ==
    /\ pc = "done"
    /\ pc' = "idle"
    /\ call' = NoCreation
    /\ sent' = << >>
    /\ result' = NoResult
    /\ UNCHANGED <<maxTransferBytes, ak_maxTransferBytes>>
    /\ UNCHANGED <<regVars, pmVars, bcVars, utVars>>

(***************************************************************************)
(* Scalar arguments                                                        *)
(***************************************************************************)
\* Python values given as arguments: ints, a float, and a list (not a scalar)
PyInt(k) == [t |-> "int", v |-> k]
PyFloat(k) == [t |-> "float", v |-> k]
PyList == [t |-> "list", v |-> 0]
Ints == {PyInt(k) : k \in -MaxScalar..MaxScalar}
ScalarArgs == Ints \cup {PyFloat(1), PyList}

\* np.isscalar
isscalar(x) == x.t \in {"int", "float", "bool", "str"}

\* arkouda.dtypes.resolve_scalar_dtype
resolve_scalar_dtype(x) ==
    CASE x.t = "int" -> "int64"
      [] x.t = "float" -> "float64"
      [] x.t = "bool" -> "bool"
      [] OTHER -> "str"

\* the dtype arguments of the model: supported ones and one that is not
DTypeArgs == {"int64", "float64", "bool", "int32"}

\* the server creates an array only for a size that is a count
IsCount(x) == x.t = "int" /\ x.v >= 0

\* the reply to a request that creates one array: the descriptor of the array,
\* or an error the transport raises as RuntimeError
CreateOne(msg, dtype, size) ==
    IF IsCount(size)
    THEN Return(create_pdarray(CreatedReply(1, dtype, size.v)), <<msg>>)
    ELSE Raise("RuntimeError", "server", <<msg>>)

(***************************************************************************)
(* zeros, ones, zeros_like, ones_like                                     *)
(***************************************************************************)
\* zeros(size, dtype), lines 131-139
zeros_result(size, dtype) ==
    IF ~isscalar(size) THEN Raise("TypeError", "size", << >>)
    ELSE IF dtype \notin DTypes THEN Raise("TypeError", "dtype", << >>)
    ELSE CreateOne(Msg("create", <<dtype, size>>, << >>), dtype, size)

\* variant of ones that leaves the fill out
ones_result_nofill(size, dtype) == zeros_result(size, dtype)

\* ones(size, dtype), lines 170-180: create, then a.fill(1), a second request
ones_result(size, dtype) ==
    IF ~isscalar(size) THEN Raise("TypeError", "size", << >>)
    ELSE IF dtype \notin DTypes THEN Raise("TypeError", "dtype", << >>)
    ELSE LET r == CreateOne(Msg("create", <<dtype, size>>, << >>), dtype, size)
         IN  IF r.outcome # "ok" THEN r
             ELSE Return(r.value,
                         r.msgs \o <<Msg("set", <<r.value.name, dtype, PyInt(1)>>, << >>)>>)

zeros(size, dtype) ==
    /\ pc = "idle"
    /\ Finish("zeros", <<size, dtype>>, zeros_result(size, dtype))

ones(size, dtype) ==
    /\ pc = "idle"
    /\ Finish("ones", <<size, dtype>>, ones_result(size, dtype))

\* the arguments given to zeros_like and ones_like: handles, and a list
LikeArgs == ExistingArrays \cup {[kind |-> "list", elems |-> "int", data |-> <<0>>]}

\* zeros_like(pda), lines 200-203
zeros_like(pda) ==
    /\ pc = "idle"
    /\ Finish("zeros_like", pda,
              IF pda.kind = "pdarray" THEN zeros_result(PyInt(pda.size), pda.dtype)
              ELSE Raise("TypeError", "pda", << >>))

\* ones_like(pda), lines 223-226
ones_like(pda) ==
    /\ pc = "idle"
    /\ Finish("ones_like", pda,
              IF pda.kind = "pdarray" THEN ones_result(PyInt(pda.size), pda.dtype)
              ELSE Raise("TypeError", "pda", << >>))

(***************************************************************************)
(* arange, linspace                                                        *)
(***************************************************************************)
\* the server's arange: the values from start by stride while before stop; for a
\* negative stride its iteration bound lies two below stop
ServerArange(start, stop, stride) ==
    LET n == IF stride > 0
             THEN (IF stop > start THEN ((stop - start - 1) \div stride) + 1 ELSE 0)
             ELSE (IF start > stop - 2
                   THEN ((start - (stop - 2) - 1) \div (0 - stride)) + 1 ELSE 0)
    IN  [i \in 1..n |-> start + (i - 1) * stride]

\* the argument tuples given to arange: none to three arguments, four, and
\* the documented arange(5, 0, -1)
ArangeArgs ==
    SeqsOf(ScalarArgs, 0, 3)
    \cup {<<PyInt(0), PyInt(1), PyInt(1), PyInt(1)>>, <<PyInt(5), PyInt(0), PyInt(-1)>>}

\* variant of arange that compensates for the stride -1 only
arange_result_unit_stride(args) ==
    IF Len(args) \notin {1, 2, 3} THEN Raise("UnboundLocalError", "start", << >>)
    ELSE LET start == IF Len(args) = 1 THEN PyInt(0) ELSE args[1]
             stop == IF Len(args) = 1 THEN args[1] ELSE args[2]
             stride == IF Len(args) = 3 THEN args[3] ELSE PyInt(1)
         IN  IF ~(isscalar(start) /\ isscalar(stop) /\ isscalar(stride))
             THEN Raise("TypeError", "scalars", << >>)
             ELSE IF stride.v = 0 THEN Raise("ZeroDivisionError", "stride", << >>)
             ELSE IF start.t = "int" /\ stop.t = "int" /\ stride.t = "int"
             THEN LET stop2 == IF stride.v = -1 THEN stop.v + 2 ELSE stop.v
                  IN  Return(create_pdarray(CreatedReply(1, "int64",
                                 Len(ServerArange(start.v, stop2, stride.v)))),
                             <<Msg("arange", <<start.v, stop2, stride.v>>, << >>)>>)
             ELSE Raise("TypeError", "int", << >>)

\* variant of arange that sends stop as given for every stride
arange_result_uncompensated(args) ==
    IF Len(args) \notin {1, 2, 3} THEN Raise("UnboundLocalError", "start", << >>)
    ELSE LET start == IF Len(args) = 1 THEN PyInt(0) ELSE args[1]
             stop == IF Len(args) = 1 THEN args[1] ELSE args[2]
             stride == IF Len(args) = 3 THEN args[3] ELSE PyInt(1)
         IN  IF ~(isscalar(start) /\ isscalar(stop) /\ isscalar(stride))
             THEN Raise("TypeError", "scalars", << >>)
             ELSE IF stride.v = 0 THEN Raise("ZeroDivisionError", "stride", << >>)
             ELSE IF start.t = "int" /\ stop.t = "int" /\ stride.t = "int"
             THEN Return(create_pdarray(CreatedReply(1, "int64",
                             Len(ServerArange(start.v, stop.v, stride.v)))),
                         <<Msg("arange", <<start.v, stop.v, stride.v>>, << >>)>>)
             ELSE Raise("TypeError", "int", << >>)

\* arange(*args), lines 274-305
arange_result(args) ==
    IF Len(args) \notin {1, 2, 3} THEN Raise("UnboundLocalError", "start", << >>)
    ELSE LET start == IF Len(args) = 1 THEN PyInt(0) ELSE args[1]
             stop == IF Len(args) = 1 THEN args[1] ELSE args[2]
             stride == IF Len(args) = 3 THEN args[3] ELSE PyInt(1)
         IN  IF ~(isscalar(start) /\ isscalar(stop) /\ isscalar(stride))
             THEN Raise("TypeError", "scalars", << >>)
             ELSE IF stride.v = 0 THEN Raise("ZeroDivisionError", "stride", << >>)
             ELSE IF start.t = "int" /\ stop.t = "int" /\ stride.t = "int"
             THEN LET stop2 == IF stride.v < 0 THEN stop.v + 2 ELSE stop.v
                  IN  Return(create_pdarray(CreatedReply(1, "int64",
                                 Len(ServerArange(start.v, stop2, stride.v)))),
                             <<Msg("arange", <<start.v, stop2, stride.v>>, << >>)>>)
             ELSE Raise("TypeError", "int", << >>)

arange(args) ==
    /\ pc = "idle"
    /\ Finish("arange", args, arange_result(args))

\* NUMBER_FORMAT_STRINGS[dtype].format(x): the template and the value it formats
Format(dtype, x) ==
    [fmt |-> CASE dtype = "float64" -> "{:.17f}" [] dtype = "bool" -> "{}"
               [] OTHER -> "{:n}",
     v |-> x.v]

\* the range ends given to linspace and randint
EndArgs == {PyInt(0), PyInt(1), PyFloat(1), PyList}

\* linspace(start, stop, length), lines 334-345
linspace_result(start, stop, length) ==
    IF ~(isscalar(start) /\ isscalar(stop) /\ isscalar(length))
    THEN Raise("TypeError", "scalars", << >>)
    ELSE IF resolve_scalar_dtype(length) # "int64" THEN Raise("TypeError", "length", << >>)
    ELSE CreateOne(Msg("linspace",
                       <<Format(resolve_scalar_dtype(start), start),
                         Format(resolve_scalar_dtype(stop), stop),
                         Format("int64", length)>>, << >>),
                   "float64", length)

linspace(start, stop, length) ==
    /\ pc = "idle"
    /\ Finish("linspace", <<start, stop, length>>, linspace_result(start, stop, length))

(***************************************************************************)
(* randint, uniform, standard_normal                                      *)
(***************************************************************************)
\* variant of randint that leaves the range checks to the server
randint_result_unchecked(low, high, size, dtype) ==
    IF ~(isscalar(low) /\ isscalar(high) /\ isscalar(size))
    THEN Raise("TypeError", "scalars", << >>)
    ELSE IF resolve_scalar_dtype(size) # "int64" THEN Raise("TypeError", "size", << >>)
    ELSE IF dtype \notin DTypes THEN Raise("TypeError", "dtype", << >>)
    ELSE LET msg == Msg("randint",
                        <<Format("int64", size), dtype, Format(dtype, low),
                          Format(dtype, high)>>, << >>)
         IN  IF size.v < 0 \/ high.v < low.v THEN Raise("RuntimeError", "server", <<msg>>)
             ELSE CreateOne(msg, dtype, size)

\* randint(low, high, size, dtype), lines 384-399
randint_result(low, high, size, dtype) ==
    IF ~(isscalar(low) /\ isscalar(high) /\ isscalar(size))
    THEN Raise("TypeError", "scalars", << >>)
    ELSE IF resolve_scalar_dtype(size) # "int64" THEN Raise("TypeError", "size", << >>)
    ELSE IF size.v < 0 \/ high.v < low.v THEN Raise("ValueError", "arguments", << >>)
    ELSE IF dtype \notin DTypes THEN Raise("TypeError", "dtype", << >>)
    ELSE CreateOne(Msg("randint",
                       <<Format("int64", size), dtype, Format(dtype, low),
                         Format(dtype, high)>>, << >>),
                   dtype, size)

randint(low, high, size, dtype) ==
    /\ pc = "idle"
    /\ Finish("randint", <<low, high, size, dtype>>, randint_result(low, high, size, dtype))

\* uniform(size, low, high), line 426: randint(size, low=low, high=high,
\* dtype='float64') binds size to randint's first parameter, low, and then
\* passes low again by keyword, which Python refuses
uniform_result(size, low, high) ==
    Raise("TypeError", "randint() got multiple values for argument 'low'", << >>)

uniform(size, low, high) ==
    /\ pc = "idle"
    /\ Finish("uniform", <<size, low, high>>, uniform_result(size, low, high))

\* standard_normal(size), lines 453-457
standard_normal_result(size) ==
    IF size.t = "list" THEN Raise("TypeError", "<", << >>)
    ELSE IF size.v < 0 THEN Raise("ValueError", "size", << >>)
    ELSE CreateOne(Msg("randomNormal", <<Format("int64", size)>>, << >>), "float64", size)

standard_normal(size) ==
    /\ pc = "idle"
    /\ Finish("standard_normal", size, standard_normal_result(size))

(***************************************************************************)
(* random_strings_uniform, random_strings_lognormal                       *)
(***************************************************************************)
\* the delimiter of a composite reply
Plus == <<"+">>

\* a composite reply of n descriptors joined by "+": the offsets of `size`
\* strings, their bytes, and any further descriptor
CompositeReply(n, size) ==
    LET d(k) == CreatedReply(k, IF k = 1 THEN "int64" ELSE "uint8", size)
    IN  CASE n = 1 -> <<d(1)>>
          [] n = 2 -> <<d(1), Plus, d(2)>>
          [] OTHER -> <<d(1), Plus, d(2), Plus, d(3)>>

\* str.split('+'): the parts between the delimiters
RECURSIVE split(_)
split(text) ==
    IF \A i \in DOMAIN text : text[i] # Plus THEN <<text>>
    ELSE LET i == CHOOSE j \in DOMAIN text :
                      text[j] = Plus /\ \A k \in 1..(j - 1) : text[k] # Plus
         IN  <<SubSeq(text, 1, i - 1)>> \o split(SubSeq(text, i + 1, Len(text)))

\* variant of the decoding that takes the first two parts of a longer reply
StringsOfFirstTwo(text) ==
    LET parts == split(text)
    IN  IF Len(parts) < 2 THEN [ok |-> FALSE, value |-> NoneVal]
        ELSE [ok |-> TRUE,
              value |-> Strings(create_pdarray(parts[1][1]), create_pdarray(parts[2][1]))]

\* Strings(*(repMsg.split('+'))): two descriptors make a Strings; any other
\* count is a call with the wrong number of arguments
StringsOfReply(text) ==
    LET parts == split(text)
    IN  IF Len(parts) # 2 THEN [ok |-> FALSE, value |-> NoneVal]
        ELSE [ok |-> TRUE,
              value |-> Strings(create_pdarray(parts[1][1]), create_pdarray(parts[2][1]))]

\* the request of a random-strings call and the outcome on a reply of n parts
RandomStrings(msg, args, n) ==
    IF \E i \in DOMAIN args : args[i].t # "int" \/ args[i].v < 0
    THEN Raise("RuntimeError", "server", <<msg>>)
    ELSE LET r == StringsOfReply(CompositeReply(n, args[1].v))
         IN  IF r.ok THEN Return(r.value, <<msg>>)
             ELSE Raise("TypeError", "reply", <<msg>>)

\* random_strings_uniform(minlen, maxlen, size), lines 486-494, on a reply of n parts
random_strings_uniform_result(minlen, maxlen, size, n) ==
    IF minlen.t = "list" THEN Raise("TypeError", "<", << >>)
    ELSE IF minlen.v < 0 THEN Raise("ValueError", "arguments", << >>)
    ELSE IF maxlen.t = "list" THEN Raise("TypeError", "<", << >>)
    ELSE IF maxlen.v < minlen.v THEN Raise("ValueError", "arguments", << >>)
    ELSE IF size.t = "list" THEN Raise("TypeError", "<", << >>)
    ELSE IF size.v < 0 THEN Raise("ValueError", "arguments", << >>)
    ELSE RandomStrings(Msg("randomStrings",
                           <<Format("int64", size), "uniform", "uppercase",
                             Format("int64", minlen), Format("int64", maxlen)>>, << >>),
                       <<size, minlen, maxlen>>, n)

random_strings_uniform(minlen, maxlen, size) ==
    /\ pc = "idle"
    /\ \E n \in 1..3 :
          FinishOn("random_strings_uniform", <<minlen, maxlen, size>>,
                   random_strings_uniform_result(minlen, maxlen, size, n), n)

\* random_strings_lognormal(logmean, logstd, size), lines 530-538
random_strings_lognormal_result(logmean, logstd, size, n) ==
    IF logstd.t = "list" THEN Raise("TypeError", "<=", << >>)
    ELSE IF logstd.v <= 0 THEN Raise("ValueError", "arguments", << >>)
    ELSE IF size.t = "list" THEN Raise("TypeError", "<", << >>)
    ELSE IF size.v < 0 THEN Raise("ValueError", "arguments", << >>)
    ELSE IF logmean.t = "list" THEN Raise("TypeError", "format", << >>)
    ELSE RandomStrings(Msg("randomStrings",
                           <<Format("int64", size), "lognormal", "uppercase",
                             Format("float64", logmean), Format("float64", logstd)>>, << >>),
                       <<size>>, n)

random_strings_lognormal(logmean, logstd, size) ==
    /\ pc = "idle"
    /\ \E n \in 1..3 :
          FinishOn("random_strings_lognormal", <<logmean, logstd, size>>,
                   random_strings_lognormal_result(logmean, logstd, size, n), n)

(***************************************************************************)
(* The creation session                                                    *)
(***************************************************************************)
CrIdle ==
    /\ maxTransferBytes = DefaultMaxTransferBytes
    /\ ak_maxTransferBytes = DefaultMaxTransferBytes
    /\ pc = "idle"
    /\ call = NoCreation
    /\ sent = << >>
    /\ result = NoResult

CrInit == CrIdle

CrNext ==
    \/ \E a \in ExistingArrays : array_direct(a)
    \/ \E a \in NumericArrays : array_direct(a)
    \/ \E a \in IntLists : array_direct(a)
    \/ \E a \in TextMatrices : array_direct(a)
    \/ \E a \in TextArrays : array_text_pack(a)
    \/ \E a \in StrLists : array_text_pack(a)
    \/ array_text_offsets
    \/ array_text_values
    \/ array_of_result
    \/ \E size \in ScalarArgs, dtype \in DTypeArgs : zeros(size, dtype)
    \/ \E size \in ScalarArgs, dtype \in DTypeArgs : ones(size, dtype)
    \/ \E pda \in LikeArgs : zeros_like(pda)
    \/ \E pda \in LikeArgs : ones_like(pda)
    \/ \E args \in ArangeArgs : arange(args)
    \/ \E start \in EndArgs, stop \in EndArgs, length \in ScalarArgs :
          linspace(start, stop, length)
    \/ \E low \in EndArgs, high \in EndArgs, size \in ScalarArgs, dtype \in DTypeArgs :
          randint(low, high, size, dtype)
    \/ \E size \in ScalarArgs, low \in EndArgs, high \in EndArgs : uniform(size, low, high)
    \/ \E size \in ScalarArgs : standard_normal(size)
    \/ \E minlen \in ScalarArgs, maxlen \in ScalarArgs, size \in ScalarArgs :
          random_strings_uniform(minlen, maxlen, size)
    \/ \E logmean \in EndArgs, logstd \in ScalarArgs, size \in ScalarArgs :
          random_strings_lognormal(logmean, logstd, size)
    \/ \E v \in LimitValues : set_ak_maxTransferBytes(v)
    \/ \E v \in LimitValues : set_module_maxTransferBytes(v)
    \/ next_call

(***************************************************************************)
(* invert_permutation (arkouda/numpy/util.py)                             *)
(***************************************************************************)
\* longest array given to invert_permutation
MaxPermLen == 3
\* largest value in such an array (the smallest is -1)
MaxPermVal == 3

\* the data of the int64 arrays given to invert_permutation
PermInputs == SeqsOf((-1)..MaxPermVal, 0, MaxPermLen)

\* the server's unique: the distinct values (their count is the result's size)
unique(x) == {x[i] : i \in DOMAIN x}

\* the server's coargsort of two key arrays: the indices in the order that sorts
\* the pairs (k1[i], k2[i]), ties left in index order
coargsort(k1, k2) ==
    LET n == Len(k1)
        Before(i, j) == \/ k1[i] < k1[j]
                        \/ k1[i] = k1[j] /\ k2[i] < k2[j]
                        \/ k1[i] = k1[j] /\ k2[i] = k2[j] /\ i < j
        Rank(i) == Cardinality({j \in 1..n : Before(j, i)})
    IN  [k \in 1..n |-> (CHOOSE i \in 1..n : Rank(i) = k - 1) - 1]

\* variant of invert_permutation that sorts before it checks
invert_permutation_checks_late(p) ==
    IF Cardinality(unique(p)) # Len(p)
    THEN [outcome |-> "ValueError", value |-> << >>,
          msgs |-> <<"unique", "arange", "coargsort">>]
    ELSE [outcome |-> "ok",
          value |-> coargsort(p, ServerArange(0, Len(p), 1)),
          msgs |-> <<"unique", "arange", "coargsort">>]

\* variant of invert_permutation that gives coargsort its keys in the other order
invert_permutation_swapped(p) ==
    IF Cardinality(unique(p)) # Len(p)
    THEN [outcome |-> "ValueError", value |-> << >>, msgs |-> <<"unique">>]
    ELSE [outcome |-> "ok",
          value |-> coargsort(ServerArange(0, Len(p), 1), p),
          msgs |-> <<"unique", "arange", "coargsort">>]

\* invert_permutation(perm), lines 114-117
invert_permutation_result(p) ==
    IF Cardinality(unique(p)) # Len(p)
    THEN [outcome |-> "ValueError", value |-> << >>, msgs |-> <<"unique">>]
    ELSE [outcome |-> "ok",
          value |-> coargsort(p, ServerArange(0, Len(p), 1)),
          msgs |-> <<"unique", "arange", "coargsort">>]

NoInv == [outcome |-> "pending", value |-> << >>, msgs |-> << >>]

invert_permutation(p) ==
    /\ inv = NoInv
    /\ perm' = p
    /\ inv' = invert_permutation_result(p)
    /\ UNCHANGED <<regVars, crVars, bcVars, utVars>>

PmIdle == perm = << >> /\ inv = NoInv

PmInit == PmIdle

(***************************************************************************)
(* broadcast_dims (arkouda/numpy/util.py)                                 *)
(***************************************************************************)
\* most dimensions of a shape
MaxRank == 2
\* largest extent of a dimension
MaxDim == 5

Shapes == SeqsOf(0..MaxDim, 0, MaxRank)

Max(a, b) == IF a >= b THEN a ELSE b

\* variant of the loop that aligns the two shapes at their first dimension
RECURSIVE BroadcastLoopLeft(_, _, _, _)
BroadcastLoopLeft(a, b, shapeOut, i) ==
    IF i < 0 THEN [outcome |-> "ok", value |-> shapeOut]
    ELSE LET d1 == IF i < Len(a) THEN a[i + 1] ELSE 1
             d2 == IF i < Len(b) THEN b[i + 1] ELSE 1
         IN  IF d1 = 1 THEN BroadcastLoopLeft(a, b, [shapeOut EXCEPT ![i + 1] = d2], i - 1)
             ELSE IF d2 = 1 THEN BroadcastLoopLeft(a, b, [shapeOut EXCEPT ![i + 1] = d1], i - 1)
             ELSE IF d1 = d2 THEN BroadcastLoopLeft(a, b, [shapeOut EXCEPT ![i + 1] = d1], i - 1)
             ELSE [outcome |-> "ValueError", value |-> << >>]

\* the while loop of lines 573-590, entered with index i
RECURSIVE BroadcastLoop(_, _, _, _)
BroadcastLoop(a, b, shapeOut, i) ==
    IF i < 0 THEN [outcome |-> "ok", value |-> shapeOut]
    ELSE LET N == Max(Len(a), Len(b))
             n1 == Len(a) - N + i
             n2 == Len(b) - N + i
             d1 == IF n1 >= 0 THEN a[n1 + 1] ELSE 1
             d2 == IF n2 >= 0 THEN b[n2 + 1] ELSE 1
         IN  IF d1 = 1 THEN BroadcastLoop(a, b, [shapeOut EXCEPT ![i + 1] = d2], i - 1)
             ELSE IF d2 = 1 THEN BroadcastLoop(a, b, [shapeOut EXCEPT ![i + 1] = d1], i - 1)
             ELSE IF d1 = d2 THEN BroadcastLoop(a, b, [shapeOut EXCEPT ![i + 1] = d1], i - 1)
             ELSE [outcome |-> "ValueError", value |-> << >>]

\* variant of broadcast_dims running the left-aligned loop
broadcast_dims_left(a, b) ==
    LET N == Max(Len(a), Len(b))
    IN  BroadcastLoopLeft(a, b, [i \in 1..N |-> 0], N - 1)

\* broadcast_dims(sa, sb), lines 568-592
broadcast_dims_result(a, b) ==
    LET N == Max(Len(a), Len(b))
    IN  BroadcastLoop(a, b, [i \in 1..N |-> 0], N - 1)

NoBc == [outcome |-> "pending", value |-> << >>]

broadcast_dims ==
    /\ bc = NoBc
    /\ bc' = broadcast_dims_result(sa, sb)
    /\ UNCHANGED <<sa, sb>>
    /\ UNCHANGED <<regVars, crVars, pmVars, utVars>>

BcIdle == sa = << >> /\ sb = << >> /\ bc = NoBc

BcInit == sa \in Shapes /\ sb \in Shapes /\ bc = NoBc

(***************************************************************************)
(* map (arkouda/numpy/util.py)                                            *)
(***************************************************************************)
\* longest array of values given to map
MaxMapLen == 3
\* the keys of the model are 1..MaxMapKey
MaxMapKey == 3

\* array elements: a float, an int, NaN, a string
Flt(v) == [t |-> "float", v |-> v]
I64(v) == [t |-> "int", v |-> v]
NaN == [t |-> "nan"]
Str(s) == [t |-> "str", s |-> s]

\* the values arrays given to map: int64 arrays over the keys
MapValues == SeqsOf(1..MaxMapKey, 0, MaxMapLen)

\* key sequences without repetition: the keys of a dict in insertion order,
\* the index of a Series
KeyLists == {ks \in SeqsOf(1..MaxMapKey, 0, MaxMapKey) :
                \A i, j \in DOMAIN ks : i # j => ks[i] # ks[j]}

\* the dicts given to map, with float values and with string values
FloatDicts ==
    {[kind |-> "dict", keys |-> ks, vals |-> [i \in DOMAIN ks |-> Flt(10 * ks[i])]] :
        ks \in KeyLists}
IntDicts ==
    {[kind |-> "dict", keys |-> ks, vals |-> [i \in DOMAIN ks |-> I64(10 * ks[i])]] :
        ks \in KeyLists}
StrDicts ==
    {[kind |-> "dict", keys |-> ks, vals |-> [i \in DOMAIN ks |-> Str(ToString(ks[i]))]] :
        ks \in KeyLists}

\* the dict of the documented example
ExampleDict ==
    [kind |-> "dict", keys |-> <<4, 2, 1, 3>>,
     vals |-> <<Flt(25), Flt(30), Flt(7), Flt(5)>>]

\* Series(values, index): a keyed table; vkind is the class of its values
Series(vkind, index, vals) ==
    [kind |-> "Series", vkind |-> vkind, index |-> index, vals |-> vals]

\* the Series given to map: values a float pdarray, a Strings, a Categorical,
\* and values of a class that is none of these
FloatSeries ==
    {Series("pdarray", ks, [i \in DOMAIN ks |-> Flt(10 * ks[i])]) : ks \in KeyLists}
StrSeries ==
    {Series(vk, ks, [i \in DOMAIN ks |-> Str(ToString(ks[i]))]) :
        vk \in {"Strings", "Categorical"}, ks \in KeyLists}
OtherSeries ==
    {Series("SegArray", ks, [i \in DOMAIN ks |-> Flt(10 * ks[i])]) : ks \in KeyLists}

\* a mapping that is neither a dict nor a Series
ListMapping == [kind |-> "list"]

\* the server's sort of a set of keys
RECURSIVE SortedSeq(_)
SortedSeq(S) ==
    IF S = {} THEN << >>
    ELSE LET m == CHOOSE x \in S : \A y \in S : x <= y
         IN  <<m>> \o SortedSeq(S \ {m})

\* GroupBy(keys, dropna=False): the distinct keys in order, the start of each
\* group in the sorted array, and the permutation that sorts the array
GroupBy(keys) ==
    LET uk == SortedSeq({keys[i] : i \in DOMAIN keys})
    IN  [unique_keys |-> uk,
         segments |-> [g \in DOMAIN uk |->
                          Cardinality({i \in DOMAIN keys : keys[i] < uk[g]})],
         permutation |-> coargsort(keys, keys)]

\* in1d(a, b, invert=True): for each element of a, is it absent from b
in1d_invert(a, b) == [i \in DOMAIN a |-> \A j \in DOMAIN b : b[j] # a[i]]

\* a[mask] for a boolean mask
RECURSIVE Select(_, _)
Select(a, mask) ==
    IF a = << >> THEN << >>
    ELSE (IF Head(mask) THEN <<Head(a)>> ELSE << >>) \o Select(Tail(a), Tail(mask))

\* the dtype of the values of a Series; an empty list gives a float64 array
ValuesDtype(s) ==
    IF s.vkind \in {"Strings", "Categorical"} THEN "str"
    ELSE IF s.vals # << >> /\ s.vals[1].t = "int" THEN "int64" ELSE "float64"

\* an int64 array has no NaN: asked to fill one with NaN, full either fails or
\* stores whatever integer the conversion of NaN gives
NanAsInt == {"raise", "store"}
NotANaN == [t |-> "int", conv |-> "nan"]

\* full(size, fill_value, dtype)
full(size, v, dtype, cast) ==
    IF v = NaN /\ dtype = "int64"
    THEN (IF cast = "raise" THEN [ok |-> FALSE, data |-> << >>]
          ELSE [ok |-> TRUE, data |-> [i \in 1..size |-> NotANaN]])
    ELSE [ok |-> TRUE, data |-> [i \in 1..size |-> v]]

\* Series.concat of two Series
Series_concat(s1, s2) == Series(s1.vkind, s1.index \o s2.index, s1.vals \o s2.vals)

\* Series[keys]: the rows labelled by the keys, in their order; the values of a
\* Categorical come back as Strings
Series_getitem(s, keys) ==
    Series(IF s.vkind = "Categorical" THEN "Strings" ELSE s.vkind,
           keys,
           [k \in DOMAIN keys |-> s.vals[CHOOSE p \in DOMAIN s.index : s.index[p] = keys[k]]])

\* broadcast(segments, values, permutation): each group's value at every
\* position of the group in the original order
broadcast(segments, vals, permutation) ==
    LET n == Len(permutation)
        group(j) == CHOOSE g \in DOMAIN segments :
                        /\ segments[g] <= j
                        /\ \A h \in DOMAIN segments : segments[h] <= j => h <= g
        pos(i) == CHOOSE j \in 0..(n - 1) : permutation[j + 1] = i
    IN  [i \in 1..n |-> vals[group(pos(i - 1))]]

\* outcome of a utility call: what it raised or returned, and the remote
\* operations it called, in order
UtRaise(exc, msgs) == [outcome |-> exc, value |-> << >>, msgs |-> msgs]
UtReturn(value, msgs) == [outcome |-> "ok", value |-> value, msgs |-> msgs]
\* lines 814-836: map once the mapping is a Series s; gb is the grouping of
\* the values and msgs the remote operations called so far
MapSeries(gb, s, msgs, cast) ==
    LET gb_keys == gb.unique_keys
        xtra_keys == Select(gb_keys, in1d_invert(gb_keys, s.index))
        nans == IF s.vkind \notin {"Strings", "Categorical"}
                THEN full(Len(xtra_keys), NaN, ValuesDtype(s), cast)
                ELSE full(Len(xtra_keys), Str("null"), "str", cast)
        s2 == IF Len(xtra_keys) > 0
              THEN Series_concat(s, Series(s.vkind, xtra_keys, nans.data))
              ELSE s
        msgs2 == msgs \o <<"in1d", "getitem">>
                 \o (IF Len(xtra_keys) > 0 THEN <<"full", "concat">> ELSE << >>)
        s3 == Series_getitem(s2, gb_keys)
    IN  IF Len(xtra_keys) > 0 /\ ~nans.ok
        THEN UtRaise("ValueError", msgs \o <<"in1d", "getitem", "full">>)
        ELSE IF s3.vkind \in {"pdarray", "Strings"}
        THEN UtReturn([kind |-> s3.vkind,
                       data |-> broadcast(gb.segments, s3.vals, gb.permutation)],
                      msgs2 \o <<"getitem", "broadcast">>)
        ELSE UtRaise("TypeError", msgs2 \o <<"getitem">>)

\* map(values, mapping), lines 806-838
map_result(values, mapping, cast) ==
    LET gb == GroupBy(values)
    IN  IF mapping.kind = "dict"
        THEN MapSeries(gb,
                       Series(IF mapping.vals # << >> /\ mapping.vals[1].t = "str"
                              THEN "Strings" ELSE "pdarray",
                              mapping.keys, mapping.vals),
                       <<"GroupBy", "array", "array">>, cast)
        ELSE IF mapping.kind = "Series" THEN MapSeries(gb, mapping, <<"GroupBy">>, cast)
        ELSE UtRaise("TypeError", <<"GroupBy">>)

\* no utility call made yet
NoUt == [op |-> "none", args |-> << >>, outcome |-> "pending", value |-> << >>,
         msgs |-> << >>]

\* the outcome r of the utility call op(args)
UtCall(op, args, r) ==
    /\ ut = NoUt
    /\ ut' = [op |-> op, args |-> args, outcome |-> r.outcome, value |-> r.value,
              msgs |-> r.msgs]
    /\ UNCHANGED <<regVars, crVars, pmVars, bcVars>>

map(values, mapping) ==
    \E cast \in NanAsInt :
        UtCall("map", <<values, mapping>>, map_result(values, mapping, cast))

UtIdle == ut = NoUt

(***************************************************************************)
(* sparse_sum_help (arkouda/numpy/util.py)                                *)
(***************************************************************************)
\* longest index array given to sparse_sum_help
MaxSparseLen == 2
\* the indices of the model are 0..MaxSparseIdx
MaxSparseIdx == 2

\* one sparse operand: its indices and, position by position, its values
SparseOperands ==
    UNION {{[idx |-> i, val |-> v] : i \in [1..n -> 0..MaxSparseIdx], v \in [1..n -> {1, 2}]} :
              n \in 0..MaxSparseLen}

\* the operands of the documented example
ExampleOperand1 == [idx |-> <<0, 1, 3, 4, 7, 9>>, val |-> <<0, 1, 3, 4, 7, 9>>]
ExampleOperand2 == [idx |-> <<0, 1, 3, 6, 9>>, val |-> <<10, 11, 13, 16, 19>>]

\* the values of percent_transfer_limit in the model
PercentLimits == {50, 100}

\* the server's sort-based workflow: group the concatenated indices, sum the
\* concatenated values of each group
SparseSumSort(idx, val) ==
    LET uk == SortedSeq({idx[i] : i \in DOMAIN idx})
        RECURSIVE SumAt(_, _)
        SumAt(k, i) == IF i = 0 THEN 0
                       ELSE (IF idx[i] = k THEN val[i] ELSE 0) + SumAt(k, i - 1)
    IN  [indices |-> uk, values |-> [g \in DOMAIN uk |-> SumAt(uk[g], Len(idx))]]

\* the server's merge-based workflow: the entries are merged one by one into
\* the sorted result so far
RECURSIVE SparseSumMerge(_, _, _)
SparseSumMerge(acc, idx, val) ==
    IF idx = << >> THEN acc
    ELSE LET k == Head(idx)
             v == Head(val)
             at == {p \in DOMAIN acc.indices : acc.indices[p] = k}
             lo == Cardinality({p \in DOMAIN acc.indices : acc.indices[p] < k})
             next ==
                 IF at # {}
                 THEN [acc EXCEPT !.values[CHOOSE p \in at : TRUE] = @ + v]
                 ELSE [indices |-> SubSeq(acc.indices, 1, lo) \o <<k>>
                                   \o SubSeq(acc.indices, lo + 1, Len(acc.indices)),
                       values |-> SubSeq(acc.values, 1, lo) \o <<v>>
                                  \o SubSeq(acc.values, lo + 1, Len(acc.values))]
         IN  SparseSumMerge(next, Tail(idx), Tail(val))

\* server handler of sparseSumHelp under the workflow it chose: the arrays it
\* creates, by name, and its reply of n descriptors joined by "+"
SparseSumHelpMsg(idx1, idx2, val1, val2, strategy, n) ==
    LET r == IF strategy = "merge"
             THEN SparseSumMerge([indices |-> << >>, values |-> << >>],
                                 idx1 \o idx2, val1 \o val2)
             ELSE SparseSumSort(idx1 \o idx2, val1 \o val2)
        d(k) == CreatedReply(k, "int64", Len(r.indices))
    IN  [store |-> ("id_1" :> r.indices) @@ ("id_2" :> r.values),
         reply |-> CASE n = 1 -> <<d(1)>>
                     [] n = 2 -> <<d(1), Plus, d(2)>>
                     [] OTHER -> <<d(1), Plus, d(2), Plus, d(3)>>]

\* str.split("+", maxsplit=1): the text before the first delimiter and the
\* text after it
split_once(text) ==
    IF \A i \in DOMAIN text : text[i] # Plus THEN <<text>>
    ELSE LET i == CHOOSE j \in DOMAIN text :
                      text[j] = Plus /\ \A k \in 1..(j - 1) : text[k] # Plus
         IN  <<SubSeq(text, 1, i - 1), SubSeq(text, i + 1, Len(text))>>

\* create_pdarray parses the text of exactly one descriptor
WellFormed(text) == Len(text) = 1 /\ text[1] # Plus

\* variant of sparse_sum_help that unpacks the two parts in the other order
sparse_sum_help_swapped(idx1, idx2, val1, val2, merge, limit, strategy, n) ==
    LET msg == Msg("sparseSumHelp", <<idx1, idx2, val1, val2, merge, limit>>, << >>)
        rep == SparseSumHelpMsg(idx1, idx2, val1, val2, strategy, n)
        parts == split_once(rep.reply)
    IN  IF Len(parts) # 2 THEN UtRaise("ValueError", <<msg>>)
        ELSE IF ~WellFormed(parts[1]) \/ ~WellFormed(parts[2])
        THEN UtRaise("ValueError", <<msg>>)
        ELSE UtReturn([inds |-> create_pdarray(parts[2][1]),
                       vals |-> create_pdarray(parts[1][1]),
                       store |-> rep.store], <<msg>>)

\* sparse_sum_help, lines 516-528, when the server works by `strategy` and
\* replies with n descriptors
sparse_sum_help_result(idx1, idx2, val1, val2, merge, limit, strategy, n) ==
    LET msg == Msg("sparseSumHelp", <<idx1, idx2, val1, val2, merge, limit>>, << >>)
        rep == SparseSumHelpMsg(idx1, idx2, val1, val2, strategy, n)
        parts == split_once(rep.reply)
    IN  IF Len(parts) # 2 THEN UtRaise("ValueError", <<msg>>)
        ELSE IF ~WellFormed(parts[1]) \/ ~WellFormed(parts[2])
        THEN UtRaise("ValueError", <<msg>>)
        ELSE UtReturn([inds |-> create_pdarray(parts[1][1]),
                       vals |-> create_pdarray(parts[2][1]),
                       store |-> rep.store], <<msg>>)

\* the workflows open to the server: sort-based, and merge-based when asked
Strategies(merge) == IF merge THEN {"merge", "sort"} ELSE {"sort"}

\* the call's arguments are followed by the server's workflow and the number
\* of descriptors of its reply
sparse_sum_help(a, b, merge, limit) ==
    \E strategy \in Strategies(merge), n \in 1..3 :
        UtCall("sparse_sum_help", <<a.idx, b.idx, a.val, b.val, merge, limit, strategy, n>>,
               sparse_sum_help_result(a.idx, b.idx, a.val, b.val, merge, limit, strategy, n))

(***************************************************************************)
(* convert_bytes (arkouda/numpy/util.py)                                  *)
(***************************************************************************)
\* the byte counts and the unit strings given to convert_bytes
ByteCounts == {-2048, 0, 1, 1023, 1024, 1536, 2048, 1048576, 1073741824}
Units == {"B", "KB", "MB", "GB", "TB", "kb", ""}

RECURSIVE Gcd(_, _)
Gcd(a, b) == IF b = 0 THEN a ELSE Gcd(b, a % b)

\* float(n / d), d > 0: the quotient as a fraction in lowest terms
TrueDiv(n, d) ==
    LET g == Gcd(IF n < 0 THEN -n ELSE n, d)
    IN  [kind |-> "float", num |-> n \div g, den |-> d \div g]

\* variant of convert_bytes with decimal units
convert_bytes_decimal(nbytes, unit) ==
    LET kb == 1000
        mb == kb * kb
        gb == mb * kb
    IN  IF unit = "B" THEN UtReturn(nbytes, << >>)
        ELSE IF unit = "KB" THEN UtReturn(TrueDiv(nbytes, kb), << >>)
        ELSE IF unit = "MB" THEN UtReturn(TrueDiv(nbytes, mb), << >>)
        ELSE IF unit = "GB" THEN UtReturn(TrueDiv(nbytes, gb), << >>)
        ELSE UtRaise("ValueError", << >>)

\* convert_bytes(nbytes, unit), lines 630-642
convert_bytes_result(nbytes, unit) ==
    LET kb == 1024
        mb == kb * kb
        gb == mb * kb
    IN  IF unit = "B" THEN UtReturn(nbytes, << >>)
        ELSE IF unit = "KB" THEN UtReturn(TrueDiv(nbytes, kb), << >>)
        ELSE IF unit = "MB" THEN UtReturn(TrueDiv(nbytes, mb), << >>)
        ELSE IF unit = "GB" THEN UtReturn(TrueDiv(nbytes, gb), << >>)
        ELSE UtRaise("ValueError", << >>)

convert_bytes(nbytes, unit) ==
    UtCall("convert_bytes", <<nbytes, unit>>, convert_bytes_result(nbytes, unit))

(***************************************************************************)
(* Specifications                                                          *)
(***************************************************************************)
\* a session of registry calls
RegistryInit == RegInit /\ CrIdle /\ PmIdle /\ BcIdle /\ UtIdle
RegistrySpec == RegistryInit /\ [][RegNext]_vars

\* a session of creation calls, with the caller changing the transfer limit
CreationInit == RegIdle /\ CrInit /\ PmIdle /\ BcIdle /\ UtIdle
CreationSpec == CreationInit /\ [][CrNext]_vars

\* invert_permutation on every input array
PermInit == RegIdle /\ CrIdle /\ PmInit /\ BcIdle /\ UtIdle
PermNext == \E p \in PermInputs : invert_permutation(p)
PermSpec == PermInit /\ [][PermNext]_vars

\* broadcast_dims on every pair of shapes
BroadcastInit == RegIdle /\ CrIdle /\ PmIdle /\ BcInit /\ UtIdle
BroadcastNext == broadcast_dims
BroadcastSpec == BroadcastInit /\ [][BroadcastNext]_vars

\* a session of register_all and unregister_all calls
BatchInit == RegInit /\ CrIdle /\ PmIdle /\ BcIdle /\ UtIdle
BatchSpec == BatchInit /\ [][BatchNext]_vars

\* one call of a utility function of util.py, on every input
UtilInit == RegIdle /\ CrIdle /\ PmIdle /\ BcIdle /\ UtIdle
\* no utility call has been made
Fresh == inv = NoInv /\ ut = NoUt /\ pc = "idle"

UtilNext ==
    \/ Fresh /\ \E p \in PermInputs : invert_permutation(p)
    \/ Fresh /\ \E values \in MapValues, mapping \in FloatDicts : map(values, mapping)
    \/ Fresh /\ \E values \in MapValues, mapping \in IntDicts : map(values, mapping)
    \/ Fresh /\ \E values \in MapValues, mapping \in StrDicts : map(values, mapping)
    \/ Fresh /\ \E values \in MapValues, mapping \in FloatSeries : map(values, mapping)
    \/ Fresh /\ \E values \in MapValues, mapping \in StrSeries : map(values, mapping)
    \/ Fresh /\ \E values \in MapValues, mapping \in OtherSeries : map(values, mapping)
    \/ Fresh /\ \E values \in MapValues : map(values, ListMapping)
    \/ Fresh /\ map(<<2, 3, 2, 3, 4>>, ExampleDict)
    \/ Fresh /\ \E a \in SparseOperands, b \in SparseOperands, merge \in BOOLEAN,
                    limit \in PercentLimits : sparse_sum_help(a, b, merge, limit)
    \/ Fresh /\ \E merge \in BOOLEAN :
                    sparse_sum_help(ExampleOperand1, ExampleOperand2, merge, 100)
    \/ Fresh /\ \E nbytes \in ByteCounts, unit \in Units : convert_bytes(nbytes, unit)
    \/ Fresh /\ \E minlen \in ScalarArgs, maxlen \in ScalarArgs, size \in ScalarArgs :
                    random_strings_uniform(minlen, maxlen, size)
    \/ Fresh /\ \E logmean \in EndArgs, logstd \in ScalarArgs, size \in ScalarArgs :
                    random_strings_lognormal(logmean, logstd, size)
UtilSpec == UtilInit /\ [][UtilNext]_vars

KindsTagged(t) == {k \in KnownKinds : upper(objType(k)) = upper(t)}

C3_Unregister ==
    [][last'.op = "unregister" =>
          IF registry[last'.name] = NoEntry
          THEN /\ last'.outcome = "RuntimeError"
               /\ registry' = registry
          ELSE /\ last'.outcome = "ok"
               /\ registry' = [registry EXCEPT ![last'.name] = NoEntry]
               /\ last'.value = [kind |-> "str",
                                 text |-> <<"Unregistered",
                                            upper(objType(registry[last'.name].kind)),
                                            last'.name>>]]_vars

\* C3 witness: a name was unregistered, and unregistering it again has
\* raised a RuntimeError while another name is still registered
C3_Witness ==
    /\ prev.op = "unregister" /\ prev.outcome = "ok"
    /\ last.op = "unregister" /\ last.name = prev.name
    /\ last.outcome = "RuntimeError"
    /\ \E n \in Names : registry[n] # NoEntry

(***************************************************************************)
(* Properties of array() and the transfer limit                            *)
(***************************************************************************)
\* the call that has just ended is array() on a local sequence of rank 1
\* whose elements are strings or of a supported dtype
ArrayCallEnded ==
    /\ pc = "done"
    /\ call.op = "array"
    /\ call.a.kind # "pdarray"
    /\ AsNdArray(call.a).ndim = 1
    /\ AsNdArray(call.a).dtype \in DTypes \cup {"U"}

\* the sum of a sequence of numbers
RECURSIVE SumSeq(_)
SumSeq(x) == IF x = << >> THEN 0 ELSE Head(x) + SumSeq(Tail(x))

\* the UTF-8 encoded byte length of each string of a textual input
ByteLengths(data) == [i \in DOMAIN data |-> Len(encode(data[i]))]

\* payload size in bytes: size x itemsize for numeric input, the encoded
\* bytes and one terminator per string for textual input
PayloadBytes(a) ==
    IF a.dtype = "U" THEN SumSeq(ByteLengths(a.data)) + Len(a.data)
    ELSE Len(a.data) * itemsize(a.dtype)

\* the call has been rejected with the transfer-limit error
TransferRejected == result.outcome = "RuntimeError" /\ result.why = "transfer"

\* C4: Transfer Guard.  array() on a local sequence ends with the
\* transfer-limit error if and only if its payload size in bytes is greater
\* than the transfer limit, and a rejected call has sent no message.  (Stated
\* for calls during which the limit did not change.)
C4_TransferGuard ==
    (ArrayCallEnded /\ call.steady) =>
        /\ TransferRejected <=> PayloadBytes(AsNdArray(call.a)) > call.limit
        /\ TransferRejected => sent = << >>

\* C5: the transfer limit is the value the caller last gave
\* ak.maxTransferBytes: every array() call on numeric input is accepted or
\* rejected according to that value, and no step of a creation operation
\* changes the limit.
C5_LimitFollowsCaller ==
    /\ []((ArrayCallEnded /\ AsNdArray(call.a).dtype # "U") =>
            (TransferRejected <=> PayloadBytes(AsNdArray(call.a)) > call.ak))
    /\ [][pc' # pc => UNCHANGED <<maxTransferBytes, ak_maxTransferBytes>>]_vars

\* the textual input of the array() call in flight, once it has uploaded its
\* offsets
TextUploaded ==
    /\ call.op = "array"
    /\ call.a.kind # "pdarray"
    /\ AsNdArray(call.a).dtype = "U"
    /\ Len(sent) >= 1

\* C9: for every non-empty rank-1 textual input, the uploaded offsets start
\* at 0 and never decrease, each segment (up to the next offset, or to the
\* end of the buffer for the last string) is one byte longer than the UTF-8
\* encoding of its string, and the bytes buffer holds each string's encoded
\* bytes from its offset on, followed by a null terminator inside the buffer.
C9_SegmentsAndBytes ==
    TextUploaded =>
        LET data == AsNdArray(call.a).data
            offsets == sent[1].payload
            bytes == call.values
            end(i) == IF i < Len(data) THEN offsets[i + 1] ELSE Len(bytes)
        IN  /\ Len(offsets) = Len(data)
            /\ offsets[1] = 0
            /\ \A i \in DOMAIN data :
                  /\ offsets[i] <= end(i)
                  /\ end(i) - offsets[i] - 1 = Len(encode(data[i]))
                  /\ offsets[i] + Len(encode(data[i])) + 1 <= Len(bytes)
                  /\ SubSeq(bytes, offsets[i] + 1, offsets[i] + Len(encode(data[i])) + 1)
                        = Append(encode(data[i]), 0)
            /\ Len(sent) = 2 => sent[2].payload = bytes

(***************************************************************************)
(* Properties of the round trips of the creation operations               *)
(***************************************************************************)
\* a creation call has returned a handle
CreationSucceeded == pc = "done" /\ result.outcome = "ok"

\* C10 as stated: every successful call of a creation operation has
\* performed exactly one request/reply round trip.
C10_OneRoundTrip == CreationSucceeded => Len(sent) = 1

\* the round trips a successful call of the operation performs
RoundTrips(c) ==
    IF c.op \in {"ones", "ones_like"} THEN 2
    ELSE IF c.op = "array" /\ c.a.kind = "pdarray" THEN 0
    ELSE IF c.op = "array" /\ AsNdArray(c.a).dtype = "U" THEN 2
    ELSE 1

\* C10 amended: every successful call of a creation operation has performed
\* exactly one round trip, except that ones and ones_like perform two (the
\* creation, then the fill), array() on textual input performs two (offsets,
\* then bytes), and array() on an existing handle performs none.
C10_RoundTripsPerOperation == CreationSucceeded => Len(sent) = RoundTrips(call)

\* C10 witness: ones has returned its handle after two requests, the
\* creation and the fill
C10_Witness ==
    /\ CreationSucceeded
    /\ call.op = "ones"
    /\ Len(sent) = 2
    /\ sent[1].cmd = "create" /\ sent[2].cmd = "set"

(***************************************************************************)
(* Properties of invert_permutation                                        *)
(***************************************************************************)
\* p is a permutation of [0, n), n its length
IsPermutation(p) == {p[i] : i \in DOMAIN p} = 0..(Len(p) - 1)

\* the pair (p[i], i) comes before the pair (p[j], j); i and j count from 0
PairBefore(p, i, j) ==
    \/ p[i + 1] < p[j + 1]
    \/ p[i + 1] = p[j + 1] /\ i < j

\* C6: for every permutation p of [0, n), invert_permutation(p) returns an
\* array r of size n with r[p[i]] = i and p[r[j]] = j for every index, and r
\* lists the indices in the order that sorts the pairs (p[i], i).
C6_InverseOfPermutation ==
    (inv # NoInv /\ IsPermutation(perm)) =>
        /\ inv.outcome = "ok"
        /\ Len(inv.value) = Len(perm)
        /\ \A i \in 0..(Len(perm) - 1) : inv.value[perm[i + 1] + 1] = i
        /\ \A j \in 0..(Len(perm) - 1) : perm[inv.value[j + 1] + 1] = j
        /\ \A j, k \in 1..Len(perm) :
              j < k => PairBefore(perm, inv.value[j], inv.value[k])

\* C6 witness: the inverse of the permutation (1, 2, 0) has been returned
C6_Witness ==
    /\ perm = <<1, 2, 0>>
    /\ inv.outcome = "ok"
    /\ inv.value = <<2, 0, 1>>

\* C7: for every array that is not a permutation of [0, n), by a duplicated
\* value or by a missing one, invert_permutation raises ValueError and
\* returns no array.
C7_NonPermutationRejected ==
    (inv # NoInv /\ ~IsPermutation(perm)) =>
        /\ inv.outcome = "ValueError"
        /\ inv.value = << >>

(***************************************************************************)
(* Properties of broadcast_dims                                            *)
(***************************************************************************)
\* dimension j of shape s once it is right-aligned in a shape of length N,
\* the missing leading dimensions being 1
Aligned(s, j, N) == IF j - (N - Len(s)) >= 1 THEN s[j - (N - Len(s))] ELSE 1

\* every aligned pair of dimensions is equal or has a 1
Compatible(a, b) ==
    LET N == IF Len(a) > Len(b) THEN Len(a) ELSE Len(b)
    IN  \A j \in 1..N :
            \/ Aligned(a, j, N) = Aligned(b, j, N)
            \/ Aligned(a, j, N) = 1
            \/ Aligned(b, j, N) = 1

\* C8: broadcast_dims(sa, sb) raises the incompatible-shape error exactly
\* when some right-aligned pair of dimensions differs with neither being 1;
\* otherwise it returns a shape of length max(len(sa), len(sb)) whose
\* dimension is d2 where d1 = 1 and d1 elsewhere.  So (5,1),(1,3) gives
\* (5,3), (4,),(3,1) gives (3,4), and (2,3),(2,4) fails.
C8_BroadcastDims ==
    bc # NoBc =>
        LET N == IF Len(sa) > Len(sb) THEN Len(sa) ELSE Len(sb)
        IN  /\ bc.outcome = "ValueError" <=> ~Compatible(sa, sb)
            /\ bc.outcome = "ok" <=> Compatible(sa, sb)
            /\ bc.outcome = "ok" =>
                  /\ Len(bc.value) = N
                  /\ \A j \in 1..N :
                        bc.value[j] = IF Aligned(sa, j, N) = 1 THEN Aligned(sb, j, N)
                                      ELSE Aligned(sa, j, N)
            /\ (sa = <<5, 1>> /\ sb = <<1, 3>>) => bc.value = <<5, 3>>
            /\ (sa = <<4>> /\ sb = <<3, 1>>) => bc.value = <<3, 4>>
            /\ (sa = <<2, 3>> /\ sb = <<2, 4>>) => bc.outcome = "ValueError"

\* C8 witness: shapes of different lengths have been broadcast, (4,) and
\* (3,1) to (3,4)
C8_Witness ==
    /\ sa = <<4>> /\ sb = <<3, 1>>
    /\ bc.outcome = "ok"
    /\ bc.value = <<3, 4>>

(***************************************************************************)
(* Properties of the local validation of the creation operations          *)
(***************************************************************************)
\* x is a number below the bound
Below(x, bound) == isscalar(x) /\ x.v < bound

\* the call c has an invalid argument of the kinds listed for its operation
InvalidArguments(c) ==
    CASE c.op = "array" -> c.a.kind # "pdarray" /\ AsNdArray(c.a).ndim # 1
      [] c.op \in {"zeros", "ones"} -> ~isscalar(c.a[1]) \/ c.a[2] \notin DTypes
      [] c.op = "arange" ->
            \/ Len(c.a) \notin {1, 2, 3}
            \/ \E i \in DOMAIN c.a : c.a[i].t # "int"
            \/ Len(c.a) = 3 /\ c.a[3] = PyInt(0)
      [] c.op = "linspace" -> c.a[3].t # "int"
      [] c.op = "randint" ->
            \/ c.a[3].t = "int" /\ c.a[3].v < 0
            \/ isscalar(c.a[1]) /\ isscalar(c.a[2]) /\ c.a[2].v < c.a[1].v
      [] c.op = "standard_normal" -> Below(c.a, 0)
      [] c.op = "random_strings_uniform" ->
            \/ Below(c.a[1], 0)
            \/ isscalar(c.a[1]) /\ isscalar(c.a[2]) /\ c.a[2].v < c.a[1].v
            \/ Below(c.a[3], 0)
      [] c.op = "random_strings_lognormal" -> Below(c.a[2], 1) \/ Below(c.a[3], 0)
      [] OTHER -> FALSE

\* C11: a creation call with an invalid argument (array: rank other than 1;
\* zeros/ones: non-scalar size or unsupported dtype; arange: argument count
\* outside 1..3, non-integer argument or stride 0; linspace: non-integral
\* length; randint: size < 0 or high < low; standard_normal: size < 0;
\* random_strings_uniform: minlen < 0, maxlen < minlen or size < 0;
\* random_strings_lognormal: logstd <= 0 or size < 0) ends in an error with
\* no message sent, and a stride of 0 among integer arguments ends in
\* ZeroDivisionError.
C11_LocalValidation ==
    (pc = "done" /\ InvalidArguments(call)) =>
        /\ result.outcome # "ok"
        /\ sent = << >>
        /\ (call.op = "arange" /\ Len(call.a) = 3
                /\ (\A i \in DOMAIN call.a : call.a[i].t = "int")
                /\ call.a[3].v = 0)
            => result.outcome = "ZeroDivisionError"

\* C11 witness: randint with a negative size and high below low has raised
\* ValueError without sending anything
C11_Witness ==
    /\ pc = "done"
    /\ call.op = "randint"
    /\ call.a[3] = PyInt(-1)
    /\ call.a[1] = PyInt(1) /\ call.a[2] = PyInt(0)
    /\ result.outcome = "ValueError"
    /\ sent = << >>

(***************************************************************************)
(* Properties of the errors of invert_permutation and map                 *)
(***************************************************************************)
\* C12 as stated: the non-bijective-permutation error of invert_permutation
\* and the type errors of map are raised before any request is sent.
C12_ErrorsBeforeRoundTrip ==
    /\ inv.outcome = "ValueError" => inv.msgs = << >>
    /\ (ut.op = "map" /\ ut.outcome = "TypeError") => ut.msgs = << >>

\* C12 amended: the non-bijective-permutation error is raised after the one
\* request for the distinct values and before any sort request; the type
\* errors of map are raised after the values have been grouped on the server
\* and before any broadcast request; neither call returns a result.
C12_ErrorsBeforeResultRequest ==
    /\ inv.outcome = "ValueError" =>
          /\ inv.msgs = <<"unique">>
          /\ inv.value = << >>
    /\ (ut.op = "map" /\ ut.outcome = "TypeError") =>
          /\ ut.msgs # << >>
          /\ ut.msgs[1] = "GroupBy"
          /\ \A i \in DOMAIN ut.msgs : ut.msgs[i] # "broadcast"
          /\ ut.value = << >>

\* C12 witness: an array with a duplicate has been rejected by
\* invert_permutation after its request for the distinct values
C12_Witness ==
    /\ perm = <<0, 0>>
    /\ inv.outcome = "ValueError"
    /\ inv.msgs = <<"unique">>

(***************************************************************************)
(* Properties of uniform and arange                                        *)
(***************************************************************************)
\* C13: uniform(size, low, high) with size >= 0 and low <= high sends the
\* one request, and returns the kind of handle, that
\* randint(low, high, size, dtype=float64) does.
C13_UniformIsFloatRandint ==
    (pc = "done" /\ call.op = "uniform"
        /\ call.a[1].t = "int" /\ call.a[1].v >= 0
        /\ isscalar(call.a[2]) /\ isscalar(call.a[3]) /\ call.a[2].v <= call.a[3].v)
    => LET r == randint_result(call.a[2], call.a[3], call.a[1], "float64")
       IN  /\ result.outcome = "ok"
           /\ Len(sent) = 1
           /\ sent = r.msgs
           /\ result.value = r.value

\* the integers start, start + stride, ... that lie before stop
RECURSIVE RangeFrom(_, _, _)
RangeFrom(start, stop, stride) ==
    IF (stride > 0 /\ start >= stop) \/ (stride < 0 /\ start <= stop) THEN << >>
    ELSE <<start>> \o RangeFrom(start + stride, stop, stride)

\* the arguments start, stop, stride of an arange call with 1, 2 or 3 arguments
ArangeTriple(a) ==
    <<IF Len(a) = 1 THEN PyInt(0) ELSE a[1],
      IF Len(a) = 1 THEN a[1] ELSE a[2],
      IF Len(a) = 3 THEN a[3] ELSE PyInt(1)>>

\* C14: for integers start, stop and stride # 0, arange succeeds with one
\* request for which the server builds start, start + stride, ... from start
\* inclusive to stop exclusive, and the handle has that size; arange(5, 0, -1)
\* gives 5, 4, 3, 2, 1.
C14_ArangeValues ==
    (pc = "done" /\ call.op = "arange" /\ Len(call.a) \in {1, 2, 3}
        /\ (\A i \in DOMAIN call.a : call.a[i].t = "int")
        /\ ArangeTriple(call.a)[3].v # 0)
    => LET t == ArangeTriple(call.a)
           expected == RangeFrom(t[1].v, t[2].v, t[3].v)
       IN  /\ result.outcome = "ok"
           /\ Len(sent) = 1
           /\ sent[1].cmd = "arange"
           /\ ServerArange(sent[1].args[1], sent[1].args[2], sent[1].args[3]) = expected
           /\ result.value.size = Len(expected)
           /\ call.a = <<PyInt(5), PyInt(0), PyInt(-1)>> => expected = <<5, 4, 3, 2, 1>>

\* C14 witness: arange(5, 0, -1) has returned a handle of the five values
\* 5, 4, 3, 2, 1
C14_Witness ==
    /\ pc = "done" /\ call.op = "arange"
    /\ Len(call.a) = 3
    /\ call.a[1] = PyInt(5) /\ call.a[2] = PyInt(0) /\ call.a[3] = PyInt(-1)
    /\ result.outcome = "ok"
    /\ result.value.size = 5
    /\ ServerArange(sent[1].args[1], sent[1].args[2], sent[1].args[3]) = <<5, 4, 3, 2, 1>>

(***************************************************************************)
(* Properties of sparse_sum_help                                           *)
(***************************************************************************)
\* the sum of the entries of val whose index in idx is k
SumOf(idx, val, k) == SumSeq(Select(val, [i \in DOMAIN idx |-> idx[i] = k]))

\* C15: on a reply of two descriptors, sparse_sum_help returns (indices,
\* values) where indices is the sorted sequence of the distinct values of
\* idx1 followed by idx2 and values[k] is the sum of the entries of val1
\* followed by val2 at index indices[k]; the result does not depend on merge,
\* on percent_transfer_limit or on the workflow the server chose.
C15_SparseSum ==
    (ut.op = "sparse_sum_help" /\ ut.args[8] = 2) =>
        LET idx == ut.args[1] \o ut.args[2]
            val == ut.args[3] \o ut.args[4]
            indices == ut.value.store[ut.value.inds.name]
            values == ut.value.store[ut.value.vals.name]
        IN  /\ ut.outcome = "ok"
            /\ indices = SortedSeq({idx[i] : i \in DOMAIN idx})
            /\ Len(values) = Len(indices)
            /\ \A k \in DOMAIN indices : values[k] = SumOf(idx, val, indices[k])
            /\ ut.value.inds.size = Len(indices)
            /\ ut.value.vals.size = Len(values)
            /\ ut.args[1] = ExampleOperand1.idx /\ ut.args[2] = ExampleOperand2.idx
                => /\ indices = <<0, 1, 3, 4, 6, 7, 9>>
                   /\ values = <<10, 12, 16, 4, 16, 7, 28>>

\* C15 witness: the documented example, summed by the sort-based workflow on
\* merge = false
C15_Witness ==
    /\ ut.op = "sparse_sum_help"
    /\ ut.args[1] = <<0, 1, 3, 4, 7, 9>>
    /\ ut.args[5] = FALSE
    /\ ut.outcome = "ok"
    /\ ut.value.store[ut.value.inds.name] = <<0, 1, 3, 4, 6, 7, 9>>
    /\ ut.value.store[ut.value.vals.name] = <<10, 12, 16, 4, 16, 7, 28>>

(***************************************************************************)
(* Properties of map                                                       *)
(***************************************************************************)
\* the keys and the values of a dict or a Series
MappingKeys(m) == IF m.kind = "dict" THEN m.keys ELSE m.index

\* are the values of the mapping strings or categories
TextValued(m) ==
    IF m.kind = "dict" THEN m.vals # << >> /\ m.vals[1].t = "str"
    ELSE m.vkind \in {"Strings", "Categorical"}

\* mapping[k], or the null sentinel of the mapping when k is not a key
Lookup(m, k) ==
    LET at == {p \in DOMAIN MappingKeys(m) : MappingKeys(m)[p] = k}
    IN  IF at # {} THEN m.vals[CHOOSE p \in at : TRUE]
        ELSE IF TextValued(m) THEN Str("null") ELSE NaN

\* the mappings map accepts: a dict, or a Series of numbers, strings or
\* categories
Mappable(m) ==
    \/ m.kind = "dict"
    \/ m.kind = "Series" /\ m.vkind \in {"pdarray", "Strings", "Categorical"}

\* C16: map(values, mapping) returns an array as long as values whose element
\* i is mapping[values[i]] when values[i] is a key of mapping, and otherwise
\* NaN for numeric mapping values and "null" for string or categorical ones.
C16_MapElementwise ==
    (ut.op = "map" /\ Mappable(ut.args[2])) =>
        /\ ut.outcome = "ok"
        /\ Len(ut.value.data) = Len(ut.args[1])
        /\ \A i \in DOMAIN ut.args[1] :
               ut.value.data[i] = Lookup(ut.args[2], ut.args[1][i])

\* are the values of the mapping integers
IntValued(m) == m.kind # "list" /\ m.vals # << >> /\ m.vals[1].t = "int"

\* C16 for mappings whose values are floats, strings or categories
C16_ExceptIntValues ==
    (ut.op = "map" /\ Mappable(ut.args[2]) /\ ~IntValued(ut.args[2])) =>
        /\ ut.outcome = "ok"
        /\ Len(ut.value.data) = Len(ut.args[1])
        /\ \A i \in DOMAIN ut.args[1] :
               ut.value.data[i] = Lookup(ut.args[2], ut.args[1][i])

(***************************************************************************)
(* Properties of register_all and unregister_all                           *)
(***************************************************************************)
\* the first item among items 1..k-1 of a dict that registers name n
ItemFor(items, k, n) == CHOOSE i \in 1..(k - 1) : items[i].name = n

\* C17: when register_all fails on its k-th item, the error reaches the
\* caller, every name of items 1..k-1 holds the object of its item and every
\* other name (that of item k included) holds what it held before the call;
\* when unregister_all fails on its k-th name, the error reaches the caller,
\* the names 1..k-1 are no longer registered and every other name holds what
\* it held before the call.
C17_BestEffortBatch ==
    [][/\ (last'.op = "register_all" /\ last'.failed > 0) =>
            LET k == last'.failed
                items == last'.items
            IN  /\ last'.outcome = "RuntimeError"
                /\ k \in DOMAIN items
                /\ \A n \in Names :
                       registry'[n] =
                           IF \E i \in 1..(k - 1) : items[i].name = n
                           THEN ObjectOf(items[ItemFor(items, k, n)].obj)
                           ELSE registry[n]
       /\ (last'.op = "unregister_all" /\ last'.failed > 0) =>
            LET k == last'.failed
                names == last'.items
            IN  /\ last'.outcome = "RuntimeError"
                /\ k \in DOMAIN names
                /\ \A n \in Names :
                       registry'[n] =
                           IF \E i \in 1..(k - 1) : names[i] = n
                           THEN NoEntry
                           ELSE registry[n]]_vars

\* C17 witness: register_all has failed on its second item and its first item
\* is registered
C17_Witness ==
    /\ last.op = "register_all"
    /\ last.failed = 2
    /\ last.outcome = "RuntimeError"
    /\ registry[last.items[1].name] = ObjectOf(last.items[1].obj)
    /\ registry[last.items[2].name] # ObjectOf(last.items[2].obj)

(***************************************************************************)
(* Properties of array() on handles                                        *)
(***************************************************************************)
\* C18: array(a) on a pdarray a returns a itself, whatever its size and the
\* transfer limit, and sends nothing to the server; so array(array(x)) is the
\* handle array(x) returned.
C18_ArrayOfHandle ==
    (pc = "done" /\ call.op = "array" /\ call.a.kind = "pdarray") =>
        /\ result.outcome = "ok"
        /\ result.value = call.a
        /\ sent = << >>

\* C18 witness: array() has returned the handle it was given, which names an
\* array larger than the transfer limit
C18_Witness ==
    /\ pc = "done" /\ call.op = "array" /\ call.a.kind = "pdarray"
    /\ call.a.size * itemsize(call.a.dtype) > call.limit
    /\ result.value = call.a

\* array(array(x)): array() was given the handle a creation call returned
C18_Nested ==
    /\ pc = "done" /\ call.op = "array" /\ call.a.kind = "pdarray"
    /\ call.a.name = "id_1"
    /\ result.value = call.a

(***************************************************************************)
(* Properties of convert_bytes                                             *)
(***************************************************************************)
\* the float x equals n / d
IsQuotient(x, n, d) ==
    /\ x.kind = "float"
    /\ x.den > 0
    /\ d % x.den = 0
    /\ x.num * (d \div x.den) = n

\* C19: convert_bytes(nbytes, unit) returns nbytes itself for "B", nbytes /
\* 1024 for "KB", nbytes / 1024^2 for "MB" and nbytes / 1024^3 for "GB", sends
\* nothing, and raises ValueError for every other unit; convert_bytes(2048,
\* "KB") is 2 and convert_bytes(1048576, "MB") is 1.
C19_ConvertBytes ==
    ut.op = "convert_bytes" =>
        LET nbytes == ut.args[1]
            unit == ut.args[2]
        IN  /\ ut.msgs = << >>
            /\ unit = "B" => ut.outcome = "ok" /\ ut.value = nbytes
            /\ unit = "KB" => ut.outcome = "ok" /\ IsQuotient(ut.value, nbytes, 1024)
            /\ unit = "MB" => ut.outcome = "ok" /\ IsQuotient(ut.value, nbytes, 1024 * 1024)
            /\ unit = "GB" =>
                   ut.outcome = "ok" /\ IsQuotient(ut.value, nbytes, 1024 * 1024 * 1024)
            /\ unit \notin {"B", "KB", "MB", "GB"} => ut.outcome = "ValueError"
            /\ (nbytes = 2048 /\ unit = "KB") => (ut.value.num = 2 /\ ut.value.den = 1)
            /\ (nbytes = 1048576 /\ unit = "MB") => (ut.value.num = 1 /\ ut.value.den = 1)

\* C19 witness: convert_bytes(2048, "KB") has returned 2.0
C19_Witness ==
    /\ ut.op = "convert_bytes"
    /\ ut.args = <<2048, "KB">>
    /\ ut.outcome = "ok"
    /\ ut.value = [kind |-> "float", num |-> 2, den |-> 1]

(***************************************************************************)
(* Properties of the composite replies                                     *)
(***************************************************************************)
\* a random-strings call has decoded, or failed to decode, the server's
\* composite reply
StringsReplyDecoded ==
    /\ pc = "done"
    /\ call.op \in {"random_strings_uniform", "random_strings_lognormal"}
    /\ sent # << >>
    /\ result.why # "server"

\* C20: on a composite reply whose descriptors are not joined by exactly one
\* "+", random_strings_uniform, random_strings_lognormal and sparse_sum_help
\* end in an error and return nothing; on a reply with exactly one "+" they
\* return the pair whose first handle is the descriptor before the "+" and
\* whose second handle is the descriptor after it.
C20_CompositeReply ==
    /\ StringsReplyDecoded =>
           IF call.parts # 2
           THEN result.outcome # "ok" /\ result.value = NoneVal
           ELSE /\ result.outcome = "ok"
                /\ result.value.kind = "Strings"
                /\ result.value.offsets = create_pdarray(CreatedReply(1, "int64", call.a[3].v))
                /\ result.value.bytes = create_pdarray(CreatedReply(2, "uint8", call.a[3].v))
    /\ ut.op = "sparse_sum_help" =>
           IF ut.args[8] # 2
           THEN ut.outcome # "ok" /\ ut.value = << >>
           ELSE /\ ut.outcome = "ok"
                /\ ut.value.inds.name = "id_1"
                /\ ut.value.vals.name = "id_2"

\* C20 witness: sparse_sum_help has failed on a reply with two "+"
C20_Witness ==
    /\ ut.op = "sparse_sum_help"
    /\ ut.args[8] = 3
    /\ ut.outcome # "ok"

\* a random-strings call has failed on a reply with no "+"
C20_NoDelimiter ==
    /\ StringsReplyDecoded
    /\ call.parts = 1
    /\ result.outcome = "TypeError"

(***************************************************************************)
(* Properties of array() under changes of the transfer limit               *)
(***************************************************************************)
\* an array() call on textual input has ended in an error after its offsets
\* were uploaded
PartialUpload ==
    /\ pc = "done" /\ call.op = "array" /\ IsText(call.a)
    /\ result.outcome # "ok"
    /\ sent # << >>

\* C21: an array() call on textual input either completes both of its
\* uploads or sends nothing, whatever assignments of the transfer limit are
\* interleaved with it: it never ends in an error with the offsets array
\* created on the server and the bytes array not.
C21_AllOrNothing == ~PartialUpload

\* C21 for the calls during which the limit array() reads was not assigned
C21_WhenLimitSteady == (pc = "done" /\ call.steady) => ~PartialUpload

(***************************************************************************)
(* Properties of the arange request                                        *)
(***************************************************************************)
\* an arange call has sent its request
ArangeRequested == pc = "done" /\ call.op = "arange" /\ sent # << >>

\* C22: the one request of an arange call carries start and stride as given
\* and, in place of stop, stop + 2 when stride < 0 (whatever the negative
\* stride is) and stop itself when stride > 0.
C22_ArangeRequest ==
    ArangeRequested =>
        LET start == ArangeTriple(call.a)[1].v
            stop == ArangeTriple(call.a)[2].v
            stride == ArangeTriple(call.a)[3].v
        IN  /\ Len(sent) = 1
            /\ sent[1].cmd = "arange"
            /\ sent[1].args[1] = start
            /\ sent[1].args[3] = stride
            /\ stride < 0 => sent[1].args[2] = stop + 2
            /\ stride > 0 => sent[1].args[2] = stop
            /\ stride # 0

\* C22 witness: an arange call with stride -2 has sent stop + 2
C22_Witness ==
    /\ ArangeRequested
    /\ Len(call.a) = 3
    /\ call.a[3] = PyInt(-2)
    /\ sent[1].args = <<call.a[1].v, call.a[2].v + 2, -2>>

(***************************************************************************)
(* Properties of attach: the handle's name, the round trips, the registry  *)
(***************************************************************************)
\* C23: every attach(name) step leaves the registry as it was and is answered
\* by the server from the registry as it is at that call (a reply of its own,
\* also when the call before was attach of the same name); a handle it
\* returns has registered_name = name.
C23_AttachNamesAndAsks ==
    [][last'.op = "attach" =>
          /\ registry' = registry
          /\ last'.outcome = "ok"
          /\ last'.value # NoneVal => last'.value.registered_name = last'.name
          /\ IF registry[last'.name] = NoEntry
             THEN last'.reply = NoReply /\ last'.value = NoneVal
             ELSE /\ last'.reply.create = Descriptor(registry[last'.name])
                  /\ last'.reply.objType \in ServerSpellings(registry[last'.name])]_vars

\* C23 witness: two successive attach calls of one name have each returned a
\* handle, the second on a reply of its own, and the name is still registered
C23_Witness ==
    /\ prev.op = "attach" /\ prev.value # NoneVal
    /\ last.op = "attach" /\ last.name = prev.name
    /\ last.value # NoneVal
    /\ last.value.registered_name = last.name
    /\ last.reply.create = Descriptor(registry[last.name])

=============================================================================
